---- MODULE Spec2Model ----
(***************************************************************************)
(* Migration engine of yunohost (src/yunohost/tools.py): the registry      *)
(* (_get_migrations_list), the persisted state store                       *)
(* (tools_migrations_state, _write_migration_state) and the run loop of    *)
(* tools_migrations_run, one action per loop iteration.                    *)
(*                                                                         *)
(* Strings that the code splits or compares (migration ids, target and     *)
(* dependency references) are sequences of one-character strings.          *)
(***************************************************************************)
EXTENDS Integers, Sequences, FiniteSets, TLC

VARIABLES
    registry,           \* discovered migration files: id -> class attributes
    store,              \* content of MIGRATIONS_STATE_PATH: id -> "done"/"skipped"
    pc,                 \* "idle" (no call in progress), "loop" (inside the for
                        \* loop) or "done" (the call returned or raised)
    args,               \* arguments of the current / last tools_migrations_run call
    all_migrations,     \* local all_migrations: sorted sequence of ids
    state,              \* migration.state of the loaded objects: id -> state
    targets,            \* local targets after resolution: sequence of ids
    idx,                \* position of the for loop in targets
    accept_disclaimer,  \* the local accept_disclaimer (cleared on first use)
    result,             \* "none" while running; then "ok", the key of the
                        \* "nothing to do" message, or the key of the error raised
    log,                \* what happened to each processed target, in order
    store0,             \* the store as it was when the call started
    written,            \* the calls of _write_migration_state the running
                        \* tools_migrations_run has completed, in order
    operations,         \* what the running tools_migrations_run did with its
                        \* OperationLogger objects, in order
    lookup,             \* last get_matching_migration(target) made on its own:
                        \* the target and what was found
    state_file_exists,  \* os.path.exists(MIGRATIONS_STATE_PATH)
    broken,             \* files of the data_migrations directory that match the
                        \* naming pattern and whose import raises
    postinstall,        \* how far tools_postinstall got: "not_run",
                        \* "migrations_skipped" or "installed" (marker created)
    listed,             \* what the last tools_migrations_list returned or raised
    live,               \* the files of /etc/ldap, /var/lib/ldap and
                        \* /etc/yunohost/apps: file -> content
    slapd,              \* "running" or "stopped"
    ldap_run,           \* the last run() wrapped by Migration.ldap_migration:
                        \* the files before it and the commands it executed
    restore,            \* the last call of a restore-time hook runner: its
                        \* arguments, the hooks it invoked, whether it raised
    lock,               \* who holds /var/run/moulinette_yunohost.lock: "none"
                        \* (no file), "upgrade" (the tools_upgrade command) or
                        \* "other" (another yunohost command)
    upgrade,            \* tools_upgrade on the system and the detached
                        \* self-upgrade script
    postgresql          \* the last run() of migration 0017: what it found on
                        \* the system, how it ended, the commands it ran

\* what the migration engine itself never touches
restore_and_upgrade == <<restore, lock, upgrade, postgresql>>

outside == <<broken, postinstall, listed, restore_and_upgrade>>

\* what Migration.ldap_migration works on
ldap == <<live, slapd, ldap_run>>

vars == <<registry, store, pc, args, all_migrations, state, targets, idx,
          accept_disclaimer, result, log, store0, written,
          operations, lookup, state_file_exists,
          outside, ldap>>

----------------------------------------------------------------------------
(* Bounds *)

MaxTargets == 2

\* sleeps of the self-upgrade script that are counted
MaxSleeps == 2

\* sizes of directories and of free space are 0..MaxSpace
MaxSpace == 2

\* versions are 1..CurrentVersion, the last one being the installed yunohost
CurrentVersion == 2

----------------------------------------------------------------------------
(* Strings *)

\* code points of the characters used, for Python's string comparison
CharCode ==
    [c \in {"0", "1", "2", "_", "a", "b", "c", "z"} |->
        CASE c = "0" -> 48 [] c = "1" -> 49 [] c = "2" -> 50
          [] c = "_" -> 95 [] c = "a" -> 97 [] c = "b" -> 98
          [] c = "c" -> 99 [] c = "z" -> 122]

\* s < t for Python str: lexicographic on code points, a proper prefix is smaller
RECURSIVE StrLess(_, _)
StrLess(s, t) ==
    IF t = <<>> THEN FALSE
    ELSE IF s = <<>> THEN TRUE
    ELSE IF CharCode[Head(s)] # CharCode[Head(t)]
         THEN CharCode[Head(s)] < CharCode[Head(t)]
    ELSE StrLess(Tail(s), Tail(t))

\* position of the first "_" in s, 0 when there is none
RECURSIVE FindSep(_, _)
FindSep(s, i) ==
    IF i > Len(s) THEN 0
    ELSE IF s[i] = "_" THEN i
    ELSE FindSep(s, i + 1)

\* int() of a string of decimal digits
RECURSIVE ToInt(_)
ToInt(s) ==
    IF s = <<>> THEN 0
    ELSE 10 * ToInt(SubSeq(s, 1, Len(s) - 1)) + (CharCode[s[Len(s)]] - CharCode["0"])

\* id.split("_")[0]
SplitHead(s) ==
    IF FindSep(s, 1) = 0 THEN s ELSE SubSeq(s, 1, FindSep(s, 1) - 1)

\* id.split("_", 1)[1]
SplitName(s) == SubSeq(s, FindSep(s, 1) + 1, Len(s))

----------------------------------------------------------------------------
(* The discovered migrations *)

\* the characters of every string the model uses
Chars ==
    [s \in {"1_a", "2_b", "10_c", "2_a", "1_2", "1", "2", "a", "b", "10", "zz"} |->
        CASE s = "1_a"  -> <<"1", "_", "a">>
          [] s = "2_b"  -> <<"2", "_", "b">>
          [] s = "10_c" -> <<"1", "0", "_", "c">>
          [] s = "2_a"  -> <<"2", "_", "a">>
          [] s = "1_2"  -> <<"1", "_", "2">>
          [] s = "1"    -> <<"1">>
          [] s = "2"    -> <<"2">>
          [] s = "a"    -> <<"a">>
          [] s = "b"    -> <<"b">>
          [] s = "10"   -> <<"1", "0">>
          [] s = "zz"   -> <<"z", "z">>]

\* files of the data_migrations directory that match the naming pattern
MigrationIds == {"1_a", "2_b", "10_c"}

\* references a caller may give as a target: an id, a name, an ordinal,
\* and a reference that matches nothing
TargetRefs == {"1_a", "b", "10", "zz"}

\* class attributes of a migration: mode, dependencies, disclaimer
\* ("" stands for the default None / empty disclaimer).  1_a is a plain
\* migration, 2_b is manual and depends on 1_a by id, 10_c depends on
\* nothing, on an unknown reference, or on 1_a by ordinal and 2_b by name;
\* either no migration carries a disclaimer or 2_b and 10_c both do.
Registries ==
    { r \in [MigrationIds ->
                [mode : {"auto", "manual"},
                 dependencies : {<<>>, <<"1_a">>, <<"zz">>, <<"1", "b">>},
                 disclaimer : {"", "text"}]] :
        /\ r["1_a"].mode = "auto"
        /\ r["1_a"].dependencies = <<>>
        /\ r["1_a"].disclaimer = ""
        /\ r["2_b"].mode = "manual"
        /\ r["2_b"].dependencies = <<"1_a">>
        /\ r["10_c"].mode = "auto"
        /\ r["10_c"].disclaimer = r["2_b"].disclaimer
        /\ r["10_c"].dependencies # <<"1_a">> }

\* self.number = int(self.id.split("_", 1)[0])
Number(id) == ToInt(SplitHead(Chars[id]))

----------------------------------------------------------------------------
(* State store *)

EmptyStore == [x \in {} |-> "done"]

\* tools_migrations_state()["migrations"]: the empty mapping when the file
\* does not exist
tools_migrations_state ==
    IF ~state_file_exists THEN EmptyStore ELSE store

\* the mapping _write_migration_state writes back: re-read, set one entry
\* mutant: the file is rebuilt from the states loaded with the migration list
WriteEntry_from_memory(current_states, migration_id, st) ==
    [x \in { y \in DOMAIN state : state[y] # "pending" } \cup {migration_id} |->
        IF x = migration_id THEN st ELSE state[x]]

WriteEntry(current_states, migration_id, st) ==
    [x \in DOMAIN current_states \cup {migration_id} |->
        IF x = migration_id THEN st ELSE current_states[x]]

_write_migration_state(migration_id, st) ==
    /\ store' = WriteEntry(tools_migrations_state, migration_id, st)
    /\ state_file_exists' = TRUE
    /\ written' = Append(written, [id |-> migration_id, state |-> st])

----------------------------------------------------------------------------
(* Registry / loader *)

\* sorted(migrations, key=lambda m: m.id) as a sequence
RECURSIVE SortedById(_)
SortedById(S) ==
    IF S = {} THEN <<>>
    ELSE LET m == CHOOSE x \in S : \A y \in S \ {x} : StrLess(Chars[x], Chars[y])
         IN  <<m>> \o SortedById(S \ {m})

\* mutant: a file that cannot be imported is left out of the list
LoadFailure_ignored == FALSE

\* _load_migration raises migrations_failed_to_load_migration for some file
\* of the directory, and _get_migrations_list with it
LoadFailure == broken # {}

\* ids of the list _get_migrations_list returns
_get_migrations_list == SortedById(DOMAIN registry)

\* mutant: the persisted states are not merged into the loaded migrations
LoadedState_forgotten(states, id) == "pending"

\* mutant: a migration without an entry is taken as done
LoadedState_absent_is_done(states, id) ==
    IF id \in DOMAIN states THEN states[id] ELSE "done"

\* m.state = states.get(m.id, "pending")
LoadedState(states, id) ==
    IF id \in DOMAIN states THEN states[id] ELSE "pending"

NoMigration == "None"

\* the first migration of all_ whose id, name or ordinal prefix is target,
\* NoMigration when the loop falls through to the raise
RECURSIVE get_matching_migration(_, _)
get_matching_migration(all_, target) ==
    IF all_ = <<>> THEN NoMigration
    ELSE LET m == Head(all_)
         IN  IF \/ m = target
                \/ SplitName(Chars[m]) = Chars[target]
                \/ SplitHead(Chars[m]) = Chars[target]
             THEN m
             ELSE get_matching_migration(Tail(all_), target)

----------------------------------------------------------------------------
(* Sequence helpers *)

RECURSIVE SelectIds(_, _, _)
\* [t for t in seq if (st[t] == "pending") == wantPending]
SelectIds(seq, st, wantPending) ==
    IF seq = <<>> THEN <<>>
    ELSE IF (st[Head(seq)] = "pending") = wantPending
         THEN <<Head(seq)>> \o SelectIds(Tail(seq), st, wantPending)
         ELSE SelectIds(Tail(seq), st, wantPending)

Resolve(all_, refs) ==
    [i \in 1..Len(refs) |-> get_matching_migration(all_, refs[i])]

HasUnknown(resolved) ==
    \E i \in 1..Len(resolved) : resolved[i] = NoMigration

RECURSIVE SeqsUpTo(_, _)
SeqsUpTo(S, n) ==
    IF n = 0 THEN {<<>>}
    ELSE LET shorter == SeqsUpTo(S, n - 1)
         IN  shorter \cup { Append(s, x) : s \in shorter, x \in S }

----------------------------------------------------------------------------
(* tools_migrations_run: validation and target selection *)

\* auto + skip + force_rerun, the booleans added as integers
FlagCount(a) ==
    (IF a.auto THEN 1 ELSE 0) + (IF a.skip THEN 1 ELSE 0)
    + (IF a.force_rerun THEN 1 ELSE 0)

\* mutant: the test lets two flags through
ExclusiveOptions_two(a) == FlagCount(a) > 2

\* if auto + skip + force_rerun > 1
ExclusiveOptions(a) == FlagCount(a) > 1

\* mutant: explicit targets that are not pending are let through
Validation_no_pending_check(a, all_, st) ==
    LET resolved == Resolve(all_, a.targets)
        pending  == SelectIds(resolved, st, TRUE)
    IN  IF ExclusiveOptions(a) THEN "migrations_exclusive_options"
        ELSE IF a.targets = <<>>
        THEN IF a.skip \/ a.force_rerun
             THEN "migrations_must_provide_explicit_targets"
             ELSE IF SelectIds(all_, st, TRUE) = <<>>
                  THEN "migrations_no_migrations_to_run" ELSE "none"
        ELSE IF HasUnknown(resolved) THEN "migrations_no_such_migration"
        ELSE IF a.force_rerun /\ pending # <<>> THEN "migrations_pending_cant_rerun"
        ELSE "none"

\* mutant: force_rerun lets pending targets through
Validation_no_rerun_check(a, all_, st) ==
    LET resolved == Resolve(all_, a.targets)
        done     == SelectIds(resolved, st, FALSE)
    IN  IF ExclusiveOptions(a) THEN "migrations_exclusive_options"
        ELSE IF a.targets = <<>>
        THEN IF a.skip \/ a.force_rerun
             THEN "migrations_must_provide_explicit_targets"
             ELSE IF SelectIds(all_, st, TRUE) = <<>>
                  THEN "migrations_no_migrations_to_run" ELSE "none"
        ELSE IF HasUnknown(resolved) THEN "migrations_no_such_migration"
        ELSE IF a.skip /\ done # <<>> THEN "migrations_not_pending_cant_skip"
        ELSE IF ~(a.skip \/ a.force_rerun) /\ done # <<>> THEN "migrations_already_ran"
        ELSE "none"

\* mutant: without skip and force_rerun, targets that already ran are let
\* through
Validation_no_already_ran_check(a, all_, st) ==
    LET resolved == Resolve(all_, a.targets)
        done     == SelectIds(resolved, st, FALSE)
        pending  == SelectIds(resolved, st, TRUE)
    IN  IF ExclusiveOptions(a) THEN "migrations_exclusive_options"
        ELSE IF a.targets = <<>>
        THEN IF a.skip \/ a.force_rerun
             THEN "migrations_must_provide_explicit_targets"
             ELSE IF SelectIds(all_, st, TRUE) = <<>>
                  THEN "migrations_no_migrations_to_run" ELSE "none"
        ELSE IF HasUnknown(resolved) THEN "migrations_no_such_migration"
        ELSE IF a.skip /\ done # <<>> THEN "migrations_not_pending_cant_skip"
        ELSE IF a.force_rerun /\ pending # <<>> THEN "migrations_pending_cant_rerun"
        ELSE "none"

\* outcome of lines 896-939: the key of the validation error raised,
\* "migrations_no_migrations_to_run" for the early return, or "none" when the
\* loop is entered
Validation(a, all_, st) ==
    LET resolved == Resolve(all_, a.targets)
        done     == SelectIds(resolved, st, FALSE)
        pending  == SelectIds(resolved, st, TRUE)
    IN  IF ExclusiveOptions(a) THEN "migrations_exclusive_options"
        ELSE IF a.targets = <<>>
        THEN IF a.skip \/ a.force_rerun
             THEN "migrations_must_provide_explicit_targets"
             ELSE IF SelectIds(all_, st, TRUE) = <<>>
                  THEN "migrations_no_migrations_to_run" ELSE "none"
        ELSE IF HasUnknown(resolved) THEN "migrations_no_such_migration"
        ELSE IF a.skip /\ done # <<>> THEN "migrations_not_pending_cant_skip"
        ELSE IF a.force_rerun /\ pending # <<>> THEN "migrations_pending_cant_rerun"
        ELSE IF ~(a.skip \/ a.force_rerun) /\ done # <<>> THEN "migrations_already_ran"
        ELSE "none"

\* mutant: the default targets are all migrations, not the pending ones
SelectedTargets_all(a, all_, st) ==
    IF a.targets = <<>> THEN all_ ELSE Resolve(all_, a.targets)

SelectedTargets(a, all_, st) ==
    IF a.targets = <<>> THEN SelectIds(all_, st, TRUE)
    ELSE Resolve(all_, a.targets)

ArgSets ==
    [targets : SeqsUpTo(TargetRefs, MaxTargets),
     skip : BOOLEAN, auto : BOOLEAN, force_rerun : BOOLEAN,
     accept_disclaimer : BOOLEAN]

tools_migrations_run(a) ==
    /\ pc = "idle"
    /\ ~LoadFailure
    /\ LET all_ == _get_migrations_list
           st   == [id \in DOMAIN registry |-> LoadedState(tools_migrations_state, id)]
           res  == Validation(a, all_, st)
       IN  /\ args' = a
           /\ all_migrations' = all_
           /\ state' = st
           /\ accept_disclaimer' = a.accept_disclaimer
           /\ result' = res
           /\ targets' = IF res = "none" THEN SelectedTargets(a, all_, st) ELSE <<>>
           /\ pc' = IF res = "none" THEN "loop" ELSE "done"
    /\ idx' = 1
    /\ log' = <<>>
    /\ store0' = tools_migrations_state
    /\ written' = <<>>
    /\ operations' = <<>>
    /\ UNCHANGED <<outside, ldap, lookup, registry, store, state_file_exists>>

----------------------------------------------------------------------------
(* tools_migrations_run: the for loop, one iteration per action *)

migration == targets[idx]

\* end of an iteration: next target, or the function returns
NextTarget ==
    /\ idx' = idx + 1
    /\ pc' = IF idx = Len(targets) THEN "done" ELSE "loop"
    /\ result' = IF idx = Len(targets) THEN "ok" ELSE "none"

\* record of one iteration: the target, the in-memory states and the
\* acceptance flag it found, what it did, and the in-memory states and the
\* store file it left
Logged(outcome, newState, newStore) ==
    log' = Append(log, [id |-> migration, mem |-> state,
                        accept |-> accept_disclaimer, outcome |-> outcome,
                        after |-> newState, found |-> store,
                        stored |-> newStore])

\* mutant: the mode test is inverted
ManualGate_inverted == args.auto /\ registry[migration].mode # "manual"

\* if auto and migration.mode == "manual"
ManualGate == args.auto /\ registry[migration].mode = "manual"

\* dependencies = [get_matching_migration(dep) for dep in migration.dependencies]
dependencies == Resolve(all_migrations, registry[migration].dependencies)

\* mutant: the filter keeps the dependencies that are not pending
pending_dependencies_inverted == SelectIds(dependencies, state, FALSE)

\* mutant: the filter keeps every dependency that is not done
pending_dependencies_not_done ==
    SelectSeq(dependencies, LAMBDA d : state[d] # "done")

\* pending_dependencies = [dep.id for dep in dependencies if dep.state == "pending"]
pending_dependencies == SelectIds(dependencies, state, TRUE)

\* the iteration reaches the disclaimer check
PassedDependencies ==
    /\ ~ManualGate
    /\ args.skip \/ (~HasUnknown(dependencies) /\ pending_dependencies = <<>>)

\* mutant: the disclaimer is required under skip too
NeedsDisclaimer_under_skip == registry[migration].disclaimer # ""

\* if migration.disclaimer and not skip
NeedsDisclaimer == registry[migration].disclaimer # "" /\ ~args.skip

\* mutant: the disclaimer check is left out
PassedGates_no_disclaimer == PassedDependencies

\* the iteration reaches OperationLogger.start()
PassedGates ==
    /\ PassedDependencies
    /\ NeedsDisclaimer => accept_disclaimer

\* mutant: the acceptance is never cleared
ConsumeDisclaimer_kept == accept_disclaimer' = accept_disclaimer

\* --accept-disclaimer will only work for the first migration
ConsumeDisclaimer ==
    accept_disclaimer' = IF NeedsDisclaimer THEN FALSE ELSE accept_disclaimer

\* mutant: the unit of work is closed as a success whatever happened
operation_logger_always_success(id, closing) ==
    operations' = operations \o <<[op |-> "start", id |-> id],
                                  [op |-> "success", id |-> id]>>

\* OperationLogger("tools_migrations_migrate_forward"), .start(), and the
\* one call of .success() or .error(msg) that the branch taken makes
operation_logger(id, closing) ==
    operations' = operations \o <<[op |-> "start", id |-> id],
                                  [op |-> closing, id |-> id]>>

loop_manual ==
    /\ pc = "loop"
    /\ ManualGate
    /\ Logged("migrations_to_be_ran_manually", state, store)
    /\ NextTarget
    /\ UNCHANGED <<outside, ldap, lookup, registry, store, state_file_exists, written, operations, args, all_migrations, state, targets,
                   accept_disclaimer, store0>>

\* get_matching_migration(dep) raises out of the loop
loop_dependency_unknown ==
    /\ pc = "loop"
    /\ ~ManualGate
    /\ ~args.skip
    /\ HasUnknown(dependencies)
    /\ Logged("migrations_no_such_migration", state, store)
    /\ pc' = "done"
    /\ result' = "migrations_no_such_migration"
    /\ UNCHANGED <<outside, ldap, lookup, registry, store, state_file_exists, written, operations, args, all_migrations, state, targets, idx,
                   accept_disclaimer, store0>>

\* mutant: the acceptance is cleared before the dependency check
loop_dependencies_not_satisfied_consumes ==
    /\ pc = "loop"
    /\ ~ManualGate
    /\ ~args.skip
    /\ ~HasUnknown(dependencies)
    /\ pending_dependencies # <<>>
    /\ ConsumeDisclaimer
    /\ Logged("migrations_dependencies_not_satisfied", state, store)
    /\ NextTarget
    /\ UNCHANGED <<outside, ldap, lookup, registry, store, state_file_exists,
                   written, operations, args, all_migrations, state, targets,
                   store0>>

loop_dependencies_not_satisfied ==
    /\ pc = "loop"
    /\ ~ManualGate
    /\ ~args.skip
    /\ ~HasUnknown(dependencies)
    /\ pending_dependencies # <<>>
    /\ Logged("migrations_dependencies_not_satisfied", state, store)
    /\ NextTarget
    /\ UNCHANGED <<outside, ldap, lookup, registry, store, state_file_exists, written, operations, args, all_migrations, state, targets,
                   accept_disclaimer, store0>>

loop_need_to_accept_disclaimer ==
    /\ pc = "loop"
    /\ PassedDependencies
    /\ NeedsDisclaimer
    /\ ~accept_disclaimer
    /\ Logged("migrations_need_to_accept_disclaimer", state, store)
    /\ NextTarget
    /\ UNCHANGED <<outside, ldap, lookup, registry, store, state_file_exists, written, operations, args, all_migrations, state, targets,
                   accept_disclaimer, store0>>

\* mutant: the skip is set on the object but not written to the store
loop_skip_not_written ==
    /\ pc = "loop"
    /\ PassedGates
    /\ args.skip
    /\ ConsumeDisclaimer
    /\ operation_logger(migration, "success")
    /\ state' = [state EXCEPT ![migration] = "skipped"]
    /\ Logged("migrations_skip_migration", state', store)
    /\ NextTarget
    /\ UNCHANGED <<outside, ldap, lookup, registry, store, state_file_exists,
                   written, args, all_migrations, targets, store0>>

loop_skip ==
    /\ pc = "loop"
    /\ PassedGates
    /\ args.skip
    /\ ConsumeDisclaimer
    /\ operation_logger(migration, "success")
    /\ state' = [state EXCEPT ![migration] = "skipped"]
    /\ _write_migration_state(migration, "skipped")
    /\ Logged("migrations_skip_migration", state', store')
    /\ NextTarget
    /\ UNCHANGED <<outside, ldap, lookup, registry, args, all_migrations, targets, store0>>

\* mutant: the new state is set on the object but not written to the store
loop_run_success_not_written ==
    /\ pc = "loop"
    /\ PassedGates
    /\ ~args.skip
    /\ ConsumeDisclaimer
    /\ operation_logger(migration, "success")
    /\ state' = [state EXCEPT ![migration] = "done"]
    /\ Logged("migrations_success_forward", state', store)
    /\ NextTarget
    /\ UNCHANGED <<outside, lookup, registry, store, state_file_exists, written, args, all_migrations, targets, store0>>

\* migration.run() returns
loop_run_success ==
    /\ pc = "loop"
    /\ PassedGates
    /\ ~args.skip
    /\ ConsumeDisclaimer
    /\ operation_logger(migration, "success")
    /\ state' = [state EXCEPT ![migration] = "done"]
    /\ _write_migration_state(migration, "done")
    /\ Logged("migrations_success_forward", state', store')
    /\ NextTarget
    /\ UNCHANGED <<outside, lookup, registry, args, all_migrations, targets, store0>>

\* mutant: a failed migration is made pending again
loop_run_failed_resets ==
    /\ pc = "loop"
    /\ PassedGates
    /\ ~args.skip
    /\ ConsumeDisclaimer
    /\ operation_logger(migration, "error")
    /\ state' = [state EXCEPT ![migration] = "pending"]
    /\ store' = [x \in DOMAIN store \ {migration} |-> store[x]]
    /\ Logged("migrations_migration_has_failed", state', store')
    /\ NextTarget
    /\ UNCHANGED <<outside, lookup, registry, state_file_exists, written, args,
                   all_migrations, targets, store0>>

\* mutant: the exception of migration.run() is not caught
loop_run_failed_raises ==
    /\ pc = "loop"
    /\ PassedGates
    /\ ~args.skip
    /\ ConsumeDisclaimer
    /\ operation_logger(migration, "error")
    /\ Logged("migrations_migration_has_failed", state, store)
    /\ pc' = "done"
    /\ result' = "migrations_migration_has_failed"
    /\ UNCHANGED <<outside, lookup, registry, store, state_file_exists, written, args, all_migrations, state, targets, idx,
                   store0>>

\* mutant: the state is marked done although migration.run() raised
loop_run_failed_marks_done ==
    /\ pc = "loop"
    /\ PassedGates
    /\ ~args.skip
    /\ ConsumeDisclaimer
    /\ operation_logger(migration, "error")
    /\ state' = [state EXCEPT ![migration] = "done"]
    /\ _write_migration_state(migration, "done")
    /\ Logged("migrations_migration_has_failed", state', store')
    /\ NextTarget
    /\ UNCHANGED <<outside, lookup, registry, args, all_migrations, targets, store0>>

\* migration.run() raises
loop_run_failed ==
    /\ pc = "loop"
    /\ PassedGates
    /\ ~args.skip
    /\ ConsumeDisclaimer
    /\ operation_logger(migration, "error")
    /\ Logged("migrations_migration_has_failed", state, store)
    /\ NextTarget
    /\ UNCHANGED <<outside, lookup, registry, store, state_file_exists, written, args, all_migrations, state, targets, store0>>

----------------------------------------------------------------------------

\* run() of a migration that Migration.ldap_migration does not wrap
plain_run == UNCHANGED ldap

NoArgs ==
    [targets |-> <<>>, skip |-> FALSE, auto |-> FALSE, force_rerun |-> FALSE,
     accept_disclaimer |-> FALSE]

\* no call in progress: the locals of tools_migrations_run do not exist
NoFrame ==
    /\ pc = "idle"
    /\ args = NoArgs
    /\ all_migrations = <<>>
    /\ state = [id \in DOMAIN registry |-> "pending"]
    /\ targets = <<>>
    /\ idx = 1
    /\ accept_disclaimer = FALSE
    /\ result = "none"
    /\ log = <<>>
    /\ store0 = EmptyStore
    /\ written = <<>>
    /\ operations = <<>>

\* the call is over and its frame is dropped; only the store file remains
run_exit ==
    /\ pc = "done"
    /\ pc' = "idle"
    /\ args' = NoArgs
    /\ all_migrations' = <<>>
    /\ state' = [id \in DOMAIN registry |-> "pending"]
    /\ targets' = <<>>
    /\ idx' = 1
    /\ accept_disclaimer' = FALSE
    /\ result' = "none"
    /\ log' = <<>>
    /\ store0' = EmptyStore
    /\ written' = <<>>
    /\ operations' = <<>>
    /\ UNCHANGED <<outside, ldap, lookup, registry, store, state_file_exists>>

NoLookup == [target |-> "", found |-> "None"]

NoListing ==
    [called |-> FALSE, pending |-> FALSE, done |-> FALSE, error |-> "none",
     migrations |-> <<>>]

\* the files Migration.ldap_migration backs up, by the tree they are in
LdapFiles ==
    [ldap_config |-> "/etc/ldap/slapd.d/cn=config.ldif",
     ldap_db |-> "/var/lib/ldap/data.mdb",
     apps_settings |-> "/etc/yunohost/apps/app/settings.yml"]

Trees == DOMAIN LdapFiles

\* what a file holds: it does not exist, or one of two contents
Contents == {"absent", "old", "new"}

NoLdapRun == [invoked |-> FALSE, before |-> <<>>, commands |-> <<>>]

\* no wrapped migration has run
NoLdap ==
    /\ live = [t \in Trees |-> "old"]
    /\ slapd = "running"
    /\ ldap_run = NoLdapRun

NoRestore ==
    [called |-> FALSE, hook |-> "", backup_version |-> 0, failing |-> {},
     invoked |-> <<>>, raised |-> FALSE]

NoUpgrade ==
    [caller |-> "not_called", critical |-> FALSE, noncritical |-> FALSE,
     allow_yunohost_upgrade |-> FALSE, outcome |-> "none", script |-> "none",
     sleeps |-> 0, lock_at_start |-> "unset", success |-> "unset"]

NoPostgresql ==
    [called |-> FALSE, installed |-> {}, cluster |-> FALSE, used |-> 0,
     free |-> 0, text |-> FALSE, failing |-> "none", result |-> "none",
     commands |-> <<>>]

\* no restore, no upgrade, no run of migration 0017
NoRestoreNoUpgrade ==
    /\ restore = NoRestore
    /\ lock = "none"
    /\ upgrade = NoUpgrade
    /\ postgresql = NoPostgresql

\* nothing but the engine: every file loads, no postinstall, no listing
NoOutside ==
    /\ broken = {}
    /\ postinstall = "not_run"
    /\ listed = NoListing
    /\ NoLdap
    /\ NoRestoreNoUpgrade

Init ==
    /\ registry \in Registries
    /\ store = EmptyStore
    /\ NoFrame
    /\ lookup = NoLookup
    /\ state_file_exists = FALSE
    /\ NoOutside

Next ==
    \/ pc = "idle" /\ \E a \in ArgSets : tools_migrations_run(a)
    \/ loop_manual
    \/ loop_dependency_unknown
    \/ loop_dependencies_not_satisfied
    \/ loop_need_to_accept_disclaimer
    \/ loop_skip
    \/ loop_run_success /\ plain_run
    \/ loop_run_failed /\ plain_run
    \/ run_exit

Spec == Init /\ [][Next]_vars

----------------------------------------------------------------------------
(* Resolution of a reference on its own, over directories in which         *)
(* several migrations can match the same reference                         *)

\* files a data_migrations directory may hold
LookupIds == {"1_a", "2_a", "2_b", "1_2", "10_c"}

LookupRefs == {"1_a", "a", "b", "1", "2", "10", "zz"}

\* attributes a migration class has when it overrides nothing
DefaultAttributes == [mode |-> "auto", dependencies |-> <<>>, disclaimer |-> ""]

\* get_matching_migration(target) against the loaded list
lookup_migration(target) ==
    /\ pc = "idle"
    /\ lookup' = [target |-> target,
                  found |-> get_matching_migration(_get_migrations_list, target)]
    /\ UNCHANGED <<outside, ldap, registry, store, state_file_exists, written, operations, pc, args, all_migrations, state, targets,
                   idx, accept_disclaimer, result, log, store0>>

InitLookup ==
    /\ \E S \in SUBSET LookupIds : registry = [id \in S |-> DefaultAttributes]
    /\ store = EmptyStore
    /\ NoFrame
    /\ lookup = NoLookup
    /\ state_file_exists = FALSE
    /\ NoOutside

NextLookup == \E t \in LookupRefs : lookup_migration(t)

SpecLookup == InitLookup /\ [][NextLookup]_vars

----------------------------------------------------------------------------

\* the store is as the steps of the running invocation made it
NoOutsideWriteYet ==
    /\ store = (IF log = <<>> THEN store0 ELSE log[Len(log)].stored)
    /\ \A i \in 1..Len(log) :
          log[i].found = (IF i = 1 THEN store0 ELSE log[i-1].stored)

(* Another invocation (a nested call made by a migration's run(), a restore
   hook, _skip_all_migrations) writes an entry with _write_migration_state
   while the loop of this invocation is between two iterations.  The engine is
   single-threaded and invocations are serialised, so the three lines of
   _write_migration_state are one step; one outside write is taken during
   an invocation. *)
other_invocation_writes(migration_id, st) ==
    /\ pc = "loop"
    /\ NoOutsideWriteYet
    /\ store' = WriteEntry(tools_migrations_state, migration_id, st)
    /\ state_file_exists' = TRUE
    /\ UNCHANGED <<outside, ldap, lookup, registry, pc, args, all_migrations, state, targets,
                   idx, accept_disclaimer, result, log, store0, written, operations>>

InitConcurrent ==
    /\ registry \in { r \in Registries : /\ r["10_c"].dependencies = <<"zz">>
                                         /\ r["10_c"].disclaimer = "text" }
    /\ store = EmptyStore
    /\ NoFrame
    /\ lookup = NoLookup
    /\ state_file_exists = FALSE
    /\ NoOutside

NextConcurrent ==
    \/ Next
    \/ \E id \in DOMAIN registry, st \in {"done", "skipped"} :
            other_invocation_writes(id, st)

SpecConcurrent == InitConcurrent /\ [][NextConcurrent]_vars

----------------------------------------------------------------------------
(* Discovery and the state file: files that cannot be imported, a state    *)
(* file that does not exist or holds an entry of a migration that is no    *)
(* longer in the directory, tools_migrations_list, and the initialisation  *)
(* of the migrations by tools_postinstall                                  *)

\* the variables of the engine and of the state file
engine == <<registry, store, state_file_exists, written, operations, pc, args, all_migrations, state,
            targets, idx, accept_disclaimer, result, log, store0, lookup>>

\* _get_migrations_list raised: tools_migrations_run raises with it before
\* anything else
tools_migrations_run_load_error(a) ==
    /\ pc = "idle"
    /\ LoadFailure
    /\ args' = a
    /\ accept_disclaimer' = a.accept_disclaimer
    /\ result' = "migrations_failed_to_load_migration"
    /\ pc' = "done"
    /\ store0' = tools_migrations_state
    /\ UNCHANGED <<outside, ldap, lookup, registry, store, state_file_exists, written, operations,
                   all_migrations, state, targets, idx, log>>

\* the list of dictionaries tools_migrations_list returns, or the error it raises
tools_migrations_list(pending, done) ==
    /\ pc = "idle"
    /\ listed' =
          [called |-> TRUE, pending |-> pending, done |-> done,
           error |-> IF pending /\ done THEN "migrations_list_conflict_pending_done"
                     ELSE IF LoadFailure THEN "migrations_failed_to_load_migration"
                     ELSE "none",
           migrations |->
               IF (pending /\ done) \/ LoadFailure THEN <<>>
               ELSE LET all_ == _get_migrations_list
                        st   == [id \in DOMAIN registry |->
                                    LoadedState(tools_migrations_state, id)]
                        ids  == IF done THEN SelectIds(all_, st, FALSE)
                                ELSE IF pending THEN SelectIds(all_, st, TRUE)
                                ELSE all_
                    IN  [i \in 1..Len(ids) |-> [id |-> ids[i], state |-> st[ids[i]]]]]
    /\ UNCHANGED <<engine, ldap, broken, postinstall, restore_and_upgrade>>

\* the caller is done with the listing
list_exit ==
    /\ listed # NoListing
    /\ listed' = NoListing
    /\ UNCHANGED <<engine, ldap, broken, postinstall, restore_and_upgrade>>

\* mutant: the new state file marks nothing
new_states_none(all_) == EmptyStore

\* mutant: the entries of the old state file are marked too
new_states_with_old(all_) ==
    [id \in { all_[i] : i \in 1..Len(all_) } \cup DOMAIN tools_migrations_state |->
        "skipped"]

\* new_states["migrations"] of _skip_all_migrations
new_states(all_) == [id \in { all_[i] : i \in 1..Len(all_) } |-> "skipped"]

\* tools_postinstall up to and including _skip_all_migrations(); the marker
\* must not exist (line 289); a load failure raises out of the postinstall
postinstall_skip_all_migrations ==
    /\ pc = "idle"
    /\ postinstall = "not_run"
    /\ ~LoadFailure
    /\ store' = new_states(_get_migrations_list)
    /\ state_file_exists' = TRUE
    /\ postinstall' = "migrations_skipped"
    /\ UNCHANGED <<registry, pc, args, all_migrations, state, targets, idx,
                   accept_disclaimer, result, log, store0, written, operations, lookup,
                   broken, listed, ldap, restore_and_upgrade>>

\* os.system("touch /etc/yunohost/installed")
postinstall_touch_installed ==
    /\ postinstall = "migrations_skipped"
    /\ postinstall' = "installed"
    /\ UNCHANGED <<engine, ldap, broken, listed, restore_and_upgrade>>

\* the migrations of a directory from which 10_c has been removed
DiscoveryRegistries ==
    { r \in [{"1_a", "2_b"} ->
                [mode : {"auto", "manual"},
                 dependencies : {<<>>, <<"1_a">>, <<"10_c">>},
                 disclaimer : {"", "text"}]] :
        /\ r["1_a"] = DefaultAttributes
        /\ r["2_b"].mode = "manual"
        /\ r["2_b"].disclaimer = "text"
        /\ r["2_b"].dependencies # <<>> }

\* a state file written when 10_c was still in the directory
StaleStore == [x \in {"10_c"} |-> "done"]

InitDiscovery ==
    /\ registry \in DiscoveryRegistries
    /\ \/ state_file_exists = FALSE /\ store = EmptyStore
       \/ state_file_exists = TRUE /\ store = StaleStore
    /\ NoFrame
    /\ lookup = NoLookup
    /\ broken \in {{}, {"3_d"}}
    /\ postinstall = "not_run"
    /\ listed = NoListing
    /\ NoLdap
    /\ NoRestoreNoUpgrade

\* the commands are serialised: none starts while the caller of a listing
\* still holds it or while tools_postinstall is between its two steps
CommandMayStart == listed = NoListing /\ postinstall # "migrations_skipped"

NextDiscovery ==
    \/ CommandMayStart /\ pc = "idle" /\ ~LoadFailure
          /\ \E a \in ArgSets : tools_migrations_run(a)
    \/ CommandMayStart /\ pc = "idle" /\ LoadFailure
          /\ \E a \in ArgSets : tools_migrations_run_load_error(a)
    \/ loop_manual
    \/ loop_dependency_unknown
    \/ loop_dependencies_not_satisfied
    \/ loop_need_to_accept_disclaimer
    \/ loop_skip
    \/ loop_run_success /\ plain_run
    \/ loop_run_failed /\ plain_run
    \/ run_exit
    \/ \E p, d \in BOOLEAN : CommandMayStart /\ tools_migrations_list(p, d)
    \/ list_exit
    \/ CommandMayStart /\ postinstall_skip_all_migrations
    \/ postinstall_touch_installed

SpecDiscovery == InitDiscovery /\ [][NextDiscovery]_vars

----------------------------------------------------------------------------
(* Migration.ldap_migration: the wrapper is the sequence of commands it    *)
(* executes, and its effect is the effect of executing them in order on    *)
(* the watched files, the backup folder and the slapd service.  os.system  *)
(* returns the exit status of a failed command and raises nothing.         *)

Cmd(op) == [op |-> op, tree |-> "", ok |-> TRUE, result |-> <<>>]

\* a cp -r of one tree, with whether it succeeds
Copy(op, tree, failed) ==
    [op |-> op, tree |-> tree, ok |-> tree # failed, result |-> <<>>]

\* the wrapped run(self, backup_folder): the files as it leaves them, and
\* whether it raises
Body(files, raises) == [op |-> "run", tree |-> "", ok |-> ~raises, result |-> files]

NoBackup == [t \in Trees |-> "no_copy"]

\* the effect of one command
Exec(c, m) ==
    CASE c.op = "stop" -> [m EXCEPT !.slapd = "stopped"]
      [] c.op = "start" -> [m EXCEPT !.slapd = "running"]
      [] c.op = "cp_backup" ->
            IF c.ok THEN [m EXCEPT !.backup[c.tree] = m.live[c.tree]] ELSE m
      [] c.op = "run" -> [m EXCEPT !.live = c.result]
      [] c.op = "rm_slapd_d" -> [m EXCEPT !.live["ldap_config"] = "absent"]
      [] c.op = "cp_restore" ->
            \* cp copies the files the backup holds over the live ones and
            \* removes nothing
            IF c.ok /\ m.backup[c.tree] \notin {"no_copy", "absent"}
            THEN [m EXCEPT !.live[c.tree] = m.backup[c.tree]] ELSE m
      [] c.op = "rm_backup" -> [m EXCEPT !.backup = NoBackup]
      [] OTHER -> m

RECURSIVE ExecAll(_, _)
ExecAll(cmds, m) ==
    IF cmds = <<>> THEN m ELSE ExecAll(Tail(cmds), Exec(Head(cmds), m))

\* mutant: slapd is not started again after the backup
backup_commands_no_finally(makedirs_ok, failed) ==
    IF ~makedirs_ok
    THEN << [Cmd("makedirs") EXCEPT !.ok = FALSE], Cmd("raise") >>
    ELSE << Cmd("makedirs"), Cmd("stop"),
            Copy("cp_backup", "ldap_config", failed),
            Copy("cp_backup", "ldap_db", failed),
            Copy("cp_backup", "apps_settings", failed) >>

\* lines 1218-1234: os.makedirs raises or not; the finally starts slapd
\* before the YunohostError of the except leaves the wrapper
backup_commands(makedirs_ok, failed) ==
    IF ~makedirs_ok
    THEN << [Cmd("makedirs") EXCEPT !.ok = FALSE], Cmd("start"), Cmd("raise") >>
    ELSE << Cmd("makedirs"), Cmd("stop"),
            Copy("cp_backup", "ldap_config", failed),
            Copy("cp_backup", "ldap_db", failed),
            Copy("cp_backup", "apps_settings", failed),
            Cmd("start") >>

\* a message given to the logger, by its key
Message(key) == [op |-> "log", tree |-> key, ok |-> TRUE, result |-> <<>>]

\* mutant: the error of the body is not raised again after the rollback
rollback_commands_swallows(failed) ==
    << Message("migration_ldap_migration_failed_trying_to_rollback"),
       Cmd("stop"), Cmd("rm_slapd_d"),
       Copy("cp_restore", "ldap_config", failed),
       Copy("cp_restore", "ldap_db", failed),
       Copy("cp_restore", "apps_settings", failed),
       Cmd("start"), Cmd("rm_backup"),
       Message("migration_ldap_rollback_success") >>

\* lines 1239-1253; the bare raise raises the exception of the body again
rollback_commands(failed) ==
    << Message("migration_ldap_migration_failed_trying_to_rollback"),
       Cmd("stop"), Cmd("rm_slapd_d"),
       Copy("cp_restore", "ldap_config", failed),
       Copy("cp_restore", "ldap_db", failed),
       Copy("cp_restore", "apps_settings", failed),
       Cmd("start"), Cmd("rm_backup"),
       Message("migration_ldap_rollback_success"), Cmd("raise") >>

\* func(self): backup, then the body, then the rollback or the removal of
\* the backup
wrapper_commands(makedirs_ok, backup_failed, files, raises, restore_failed) ==
    IF ~makedirs_ok THEN backup_commands(FALSE, backup_failed)
    ELSE backup_commands(TRUE, backup_failed)
         \o << Body(files, raises) >>
         \o (IF raises THEN rollback_commands(restore_failed)
             ELSE << Cmd("rm_backup") >>)

\* the wrapper raises
Raises(cmds) == cmds[Len(cmds)].op = "raise"

\* one iteration of the loop whose migration.run() is func(self)
ldap_migration(cmds) ==
    /\ LET m == ExecAll(cmds, [live |-> live, backup |-> NoBackup, slapd |-> slapd])
       IN  /\ live' = m.live
           /\ slapd' = m.slapd
    /\ ldap_run' = [invoked |-> TRUE, before |-> live, commands |-> cmds]
    /\ IF Raises(cmds) THEN loop_run_failed ELSE loop_run_success

\* the tree whose copy fails, if one does
CopyFailures == Trees \cup {"none"}

ldap_backup_folder_fails ==
    /\ pc = "loop"
    /\ ldap_migration(wrapper_commands(FALSE, "none", live, FALSE, "none"))

ldap_body_returns ==
    /\ pc = "loop"
    /\ \E backup_failed \in CopyFailures, files \in [Trees -> Contents] :
        ldap_migration(wrapper_commands(TRUE, backup_failed, files, FALSE, "none"))

ldap_body_raises ==
    /\ pc = "loop"
    /\ \E backup_failed \in CopyFailures, files \in [Trees -> Contents],
          restore_failed \in CopyFailures :
        ldap_migration(wrapper_commands(TRUE, backup_failed, files, TRUE,
                                        restore_failed))

\* the call is over: nothing of the wrapped run is left but the files
ldap_exit ==
    /\ pc = "done"
    /\ ldap_run # NoLdapRun
    /\ ldap_run' = NoLdapRun
    /\ UNCHANGED <<engine, outside, live, slapd>>

\* calls that target the one wrapped migration
LdapArgSets ==
    { a \in ArgSets : /\ a.targets \in {<<>>, <<"1_a">>}
                      /\ ~a.skip /\ ~a.auto /\ ~a.accept_disclaimer }

InitLdap ==
    /\ registry = [id \in {"1_a"} |-> DefaultAttributes]
    /\ store = EmptyStore
    /\ state_file_exists = FALSE
    /\ NoFrame
    /\ lookup = NoLookup
    /\ broken = {}
    /\ postinstall = "not_run"
    /\ listed = NoListing
    /\ live \in [Trees -> {"absent", "old"}]
    /\ slapd = "running"
    /\ ldap_run = NoLdapRun
    /\ NoRestoreNoUpgrade

NextLdap ==
    \/ pc = "idle" /\ ldap_run = NoLdapRun
          /\ \E a \in LdapArgSets : tools_migrations_run(a)
    \/ ldap_backup_folder_fails
    \/ ldap_body_returns
    \/ ldap_body_raises
    \/ ldap_exit
    \/ ldap_run = NoLdapRun /\ run_exit

SpecLdap == InitLdap /\ [][NextLdap]_vars

----------------------------------------------------------------------------
(* Restore-time hooks *)

\* the migrations of all_ that pass the test of lines 1145-1149 / 1172-1176;
\* introduced_in_version 0 stands for a class without the attribute
\* mutant: only the pending migrations are looked at
RECURSIVE HookMigrations_pending_only(_, _, _)
HookMigrations_pending_only(all_, hook, backup_version) ==
    IF all_ = <<>> THEN <<>>
    ELSE LET m    == Head(all_)
             rest == HookMigrations_pending_only(Tail(all_), hook, backup_version)
         IN  IF /\ LoadedState(tools_migrations_state, m) = "pending"
                /\ registry[m].introduced_in_version # 0
                /\ registry[m].introduced_in_version > backup_version
                /\ registry[m][hook]
             THEN <<m>> \o rest ELSE rest

RECURSIVE HookMigrations(_, _, _)
HookMigrations(all_, hook, backup_version) ==
    IF all_ = <<>> THEN <<>>
    ELSE LET m    == Head(all_)
             rest == HookMigrations(Tail(all_), hook, backup_version)
         IN  IF /\ registry[m].introduced_in_version # 0
                /\ registry[m].introduced_in_version > backup_version
                /\ registry[m][hook]
             THEN <<m>> \o rest ELSE rest

\* the for loop: the hooks invoked, in order, up to the first that raises
RECURSIVE InvokeHooks(_, _)
InvokeHooks(seq, failing) ==
    IF seq = <<>> THEN [invoked |-> <<>>, raised |-> FALSE]
    ELSE IF Head(seq) \in failing
         THEN [invoked |-> <<Head(seq)>>, raised |-> TRUE]
    ELSE LET r == InvokeHooks(Tail(seq), failing)
         IN  [invoked |-> <<Head(seq)>> \o r.invoked, raised |-> r.raised]

\* the body the two hook runners share; failing are the migrations whose
\* hook raises when it is invoked
run_restore_hooks(hook, backup_version, failing) ==
    /\ restore = NoRestore
    /\ LET r == IF backup_version = CurrentVersion
                THEN [invoked |-> <<>>, raised |-> FALSE]
                ELSE InvokeHooks(HookMigrations(_get_migrations_list, hook,
                                                backup_version), failing)
       IN  restore' = [called |-> TRUE, hook |-> hook,
                       backup_version |-> backup_version, failing |-> failing,
                       invoked |-> r.invoked, raised |-> r.raised]
    /\ UNCHANGED <<engine, ldap, broken, postinstall, listed, lock, upgrade,
                   postgresql>>

_tools_migrations_run_after_system_restore(backup_version, failing) ==
    run_restore_hooks("run_after_system_restore", backup_version, failing)

_tools_migrations_run_before_app_restore(backup_version, failing) ==
    run_restore_hooks("run_before_app_restore", backup_version, failing)

\* the restore is over
restore_exit ==
    /\ restore # NoRestore
    /\ restore' = NoRestore
    /\ UNCHANGED <<engine, ldap, broken, postinstall, listed, lock, upgrade,
                   postgresql>>

RestoreRegistries ==
    [MigrationIds ->
        [mode : {"auto"}, dependencies : {<<>>}, disclaimer : {""},
         introduced_in_version : 0..(CurrentVersion + 1),
         run_after_system_restore : BOOLEAN,
         run_before_app_restore : BOOLEAN]]

\* the state file of the restored system: one migration done, one skipped,
\* one pending
RestoredStore == [x \in {"1_a", "2_b"} |-> IF x = "1_a" THEN "done" ELSE "skipped"]

InitRestore ==
    /\ registry \in RestoreRegistries
    /\ store = RestoredStore
    /\ state_file_exists = TRUE
    /\ NoFrame
    /\ lookup = NoLookup
    /\ NoOutside

NextRestore ==
    \/ \E v \in 1..CurrentVersion, failing \in SUBSET MigrationIds :
            _tools_migrations_run_after_system_restore(v, failing)
    \/ \E v \in 1..CurrentVersion, failing \in SUBSET MigrationIds :
            _tools_migrations_run_before_app_restore(v, failing)
    \/ restore_exit

SpecRestore == InitRestore /\ [][NextRestore]_vars

----------------------------------------------------------------------------
(* tools_upgrade on the system, the detached self-upgrade script it        *)
(* launches, and the lock file of the yunohost commands.  The lock is held *)
(* by the tools_upgrade command from its start to its end, and by any      *)
(* other yunohost command while it runs.                                   *)

upgrade_frame == <<engine, ldap, broken, postinstall, listed, restore, postgresql>>

\* the command is started on the system target; it holds the lock
tools_upgrade_system(critical, noncritical, allow_yunohost_upgrade) ==
    /\ upgrade.caller = "not_called"
    /\ lock = "none"
    /\ lock' = "upgrade"
    /\ upgrade' = [upgrade EXCEPT !.caller = "running",
                                  !.critical = critical,
                                  !.noncritical = noncritical,
                                  !.allow_yunohost_upgrade = allow_yunohost_upgrade]
    /\ UNCHANGED upgrade_frame

\* lines 626-673: the dist-upgrade of the regular packages, if there are any
tools_upgrade_regular_packages(returncode) ==
    /\ upgrade.caller = "running"
    /\ upgrade.noncritical \/ returncode = 0
    /\ upgrade' = IF upgrade.noncritical /\ returncode # 0
                  THEN [upgrade EXCEPT !.caller = "raised",
                                       !.outcome = "packages_upgrade_failed"]
                  ELSE [upgrade EXCEPT !.caller = "critical"]
    /\ UNCHANGED <<upgrade_frame, lock>>

\* lines 678-763: the critical packages are unheld and the script is
\* launched in the background, or there is nothing more to do
tools_upgrade_critical_packages(unheld) ==
    /\ upgrade.caller = "critical"
    /\ (upgrade.critical /\ upgrade.allow_yunohost_upgrade) \/ unheld
    /\ upgrade' =
          IF upgrade.critical /\ upgrade.allow_yunohost_upgrade
          THEN IF ~unheld
               THEN [upgrade EXCEPT !.caller = "raised",
                                    !.outcome = "packages_upgrade_failed"]
               ELSE [upgrade EXCEPT !.caller = "launched", !.script = "waiting"]
          ELSE [upgrade EXCEPT !.caller = "returned", !.outcome = "system_upgraded"]
    /\ UNCHANGED <<upgrade_frame, lock>>

\* line 759: os.system("... &") has returned at once, and so does tools_upgrade
tools_upgrade_returns ==
    /\ upgrade.caller = "launched"
    /\ upgrade' = [upgrade EXCEPT !.caller = "returned", !.outcome = "detached"]
    /\ UNCHANGED <<upgrade_frame, lock>>

\* the tools_upgrade command is over and its lock is removed
upgrade_command_ends ==
    /\ upgrade.caller \in {"returned", "raised"}
    /\ lock = "upgrade"
    /\ lock' = "none"
    /\ upgrade' = [upgrade EXCEPT !.caller = "ended"]
    /\ UNCHANGED upgrade_frame

\* another yunohost command (cron, web admin) starts and takes the lock
other_command_starts ==
    /\ lock = "none"
    /\ lock' = "other"
    /\ UNCHANGED <<upgrade_frame, upgrade>>

other_command_ends ==
    /\ lock = "other"
    /\ lock' = "none"
    /\ UNCHANGED <<upgrade_frame, upgrade>>

\* mutant: the script does not look at the lock file
selfupgrade_poll_no_wait ==
    /\ upgrade.script = "waiting"
    /\ upgrade' = [upgrade EXCEPT !.script = "passed"]
    /\ UNCHANGED <<upgrade_frame, lock>>

\* one turn of "while [ -f LOCK ]; do sleep 2; done"
selfupgrade_poll ==
    /\ upgrade.script = "waiting"
    /\ upgrade' =
          IF lock # "none"
          THEN [upgrade EXCEPT !.sleeps = IF @ < MaxSleeps THEN @ + 1 ELSE @]
          ELSE [upgrade EXCEPT !.script = "passed"]
    /\ UNCHANGED <<upgrade_frame, lock>>

\* "&& dist_upgrade": apt-get is started, whatever the lock file is by now
selfupgrade_dist_upgrade_starts ==
    /\ upgrade.script = "passed"
    /\ upgrade' = [upgrade EXCEPT !.script = "upgrading", !.lock_at_start = lock]
    /\ UNCHANGED <<upgrade_frame, lock>>

\* "&& mark_success || mark_failure"
selfupgrade_dist_upgrade_ends(returncode) ==
    /\ upgrade.script = "upgrading"
    /\ upgrade' = [upgrade EXCEPT !.script = "ended",
                                  !.success = IF returncode = 0 THEN "true"
                                              ELSE "false"]
    /\ UNCHANGED <<upgrade_frame, lock>>

InitUpgrade ==
    /\ registry = [id \in MigrationIds |-> DefaultAttributes]
    /\ store = EmptyStore
    /\ state_file_exists = FALSE
    /\ NoFrame
    /\ lookup = NoLookup
    /\ NoOutside

NextUpgrade ==
    \/ \E c, n, a \in BOOLEAN : tools_upgrade_system(c, n, a)
    \/ \E returncode \in {0, 1} : tools_upgrade_regular_packages(returncode)
    \/ \E unheld \in BOOLEAN : tools_upgrade_critical_packages(unheld)
    \/ tools_upgrade_returns
    \/ upgrade_command_ends
    \/ other_command_starts
    \/ other_command_ends
    \/ selfupgrade_poll
    \/ selfupgrade_dist_upgrade_starts
    \/ \E returncode \in {0, 1} : selfupgrade_dist_upgrade_ends(returncode)

\* the python function and the detached bash process keep running
SpecUpgrade ==
    /\ InitUpgrade
    /\ [][NextUpgrade]_vars
    /\ WF_vars(tools_upgrade_returns)
    /\ WF_vars(selfupgrade_poll)
    /\ WF_vars(selfupgrade_dist_upgrade_starts)

----------------------------------------------------------------------------
(* Migration 0017 (postgresql 9.6 to 11): MyMigration.run() as a function  *)
(* of what is on the system: the packages installed, whether a 9.6 cluster *)
(* is listed, the space used by /var/lib/postgresql/9.6, the free space    *)
(* in /var/lib/postgresql, the command that fails if one does, and whether *)
(* Popen.communicate() gives text (str) or bytes.                          *)

\* runcmd: how the call ends for a command with this return code.  The
\* return code is tested first; then out.strip().split("\n") raises a
\* TypeError when out is bytes.
runcmd(returncode, raise_on_errors, sys) ==
    IF raise_on_errors /\ returncode # 0 THEN "YunohostError"
    ELSE IF ~sys.text THEN "TypeError"
    ELSE "returned"

\* package_is_installed: "yes", "no", or the exception of runcmd
package_is_installed(package_name, sys) ==
    LET returncode == IF package_name \in sys.installed THEN 0 ELSE 1
        r == runcmd(returncode, FALSE, sys)
    IN  IF r # "returned" THEN r
        ELSE IF returncode = 0 THEN "yes" ELSE "no"

\* the commands of lines 44-50, in order
UpgradeCommands ==
    << "systemctl stop postgresql",
       "LC_ALL=C pg_dropcluster --stop 11 main || true",
       "LC_ALL=C pg_upgradecluster -m upgrade 9.6 main",
       "LC_ALL=C pg_dropcluster --stop 9.6 main",
       "systemctl start postgresql" >>

\* the commands that can end with a return code other than 0
FailingCommands ==
    { UpgradeCommands[i] : i \in DOMAIN UpgradeCommands }
        \ {"LC_ALL=C pg_dropcluster --stop 11 main || true"}

\* the runcmd calls of lines 44-50: each raises on a failure
RECURSIVE RunCommands(_, _)
RunCommands(cmds, sys) ==
    IF cmds = <<>> THEN [result |-> "returned", commands |-> <<>>]
    ELSE LET r == runcmd(IF Head(cmds) = sys.failing THEN 1 ELSE 0, TRUE, sys)
         IN  IF r # "returned"
             THEN [result |-> r, commands |-> <<Head(cmds)>>]
             ELSE LET rest == RunCommands(Tail(cmds), sys)
                  IN  [result |-> rest.result,
                       commands |-> <<Head(cmds)>> \o rest.commands]

\* if not space_used_by_directory(...) > free_space_in_directory(...)
SpaceCheckRaises(used, free) == ~(used > free)

\* MyMigration.run(): result is "returned", the key of the warning before a
\* return, the key of the error raised, or the class of the exception
MyMigration_run(sys) ==
    LET none == <<>>
        has96 == package_is_installed("postgresql-9.6", sys)
        has11 == package_is_installed("postgresql-11", sys)
        lsclusters == runcmd(IF sys.cluster THEN 0 ELSE 1, TRUE, sys)
    IN  IF has96 \notin {"yes", "no"} THEN [result |-> has96, commands |-> none]
        ELSE IF has96 = "no"
        THEN [result |-> "migration_0017_postgresql_96_not_installed",
              commands |-> none]
        ELSE IF has11 \notin {"yes", "no"} THEN [result |-> has11, commands |-> none]
        ELSE IF has11 = "no"
        THEN [result |-> "migration_0017_postgresql_11_not_installed",
              commands |-> none]
        ELSE IF lsclusters # "returned"
        THEN [result |-> "no_active_9.6_cluster", commands |-> none]
        ELSE IF SpaceCheckRaises(sys.used, sys.free)
        THEN [result |-> "migration_0017_not_enough_space", commands |-> none]
        ELSE RunCommands(UpgradeCommands, sys)

postgresql_frame == <<engine, ldap, broken, postinstall, listed, restore, lock, upgrade>>

\* one run of the migration on a system
migration_0017_run(sys) ==
    /\ postgresql = NoPostgresql
    /\ LET r == MyMigration_run(sys)
       IN  postgresql' = [called |-> TRUE, installed |-> sys.installed,
                          cluster |-> sys.cluster, used |-> sys.used,
                          free |-> sys.free, text |-> sys.text,
                          failing |-> sys.failing, result |-> r.result,
                          commands |-> r.commands]
    /\ UNCHANGED postgresql_frame

\* the run is over
migration_0017_exit ==
    /\ postgresql # NoPostgresql
    /\ postgresql' = NoPostgresql
    /\ UNCHANGED postgresql_frame

Systems ==
    [installed : SUBSET {"postgresql-9.6", "postgresql-11"},
     cluster : BOOLEAN, used : 0..MaxSpace, free : 0..MaxSpace,
     text : BOOLEAN, failing : FailingCommands \cup {"none"}]

InitPostgresql ==
    /\ registry = [id \in MigrationIds |-> DefaultAttributes]
    /\ store = EmptyStore
    /\ state_file_exists = FALSE
    /\ NoFrame
    /\ lookup = NoLookup
    /\ NoOutside

NextPostgresql ==
    \/ \E sys \in Systems : migration_0017_run(sys)
    \/ migration_0017_exit

SpecPostgresql == InitPostgresql /\ [][NextPostgresql]_vars

TypeOK ==
    /\ pc \in {"idle", "loop", "done"}
    /\ ~state_file_exists => store = EmptyStore
    /\ DOMAIN store \subseteq MigrationIds
    /\ \A id \in DOMAIN store : store[id] \in {"done", "skipped"}
    /\ idx \in 1..(Len(targets) + 1)

----------------------------------------------------------------------------
(* Vocabulary of the properties *)

\* keys of the YunohostValidationError raised by tools_migrations_run
ValidationErrors ==
    {"migrations_exclusive_options", "migrations_must_provide_explicit_targets",
     "migrations_no_such_migration", "migrations_not_pending_cant_skip",
     "migrations_pending_cant_rerun", "migrations_already_ran"}

Entries == 1..Len(log)

\* migration.run() was invoked in this iteration
RunInvoked(e) ==
    e.outcome \in {"migrations_success_forward", "migrations_migration_has_failed"}

\* the iteration stopped at one of the gates in front of the unit of work
Rejections ==
    {"migrations_to_be_ran_manually", "migrations_dependencies_not_satisfied",
     "migrations_need_to_accept_disclaimer", "migrations_no_such_migration"}

\* the store file as iteration i found it
StoreBefore(i) == IF i = 1 THEN store0 ELSE log[i - 1].stored

\* iteration i changed neither a migration's in-memory state nor the store
Untouched(i) ==
    /\ log[i].after = log[i].mem
    /\ log[i].stored = StoreBefore(i)

\* the migrations A declares as dependencies (the references that resolve)
DeclaredDependencies(A) ==
    { get_matching_migration(all_migrations, registry[A].dependencies[k]) :
        k \in 1..Len(registry[A].dependencies) } \ {NoMigration}

HasDisclaimer(id) == registry[id].disclaimer # ""

\* iteration i did not end the call abnormally: the loop went on to the next
\* target, or it was the last one and the call returned
LoopContinuedAfter(i) ==
    /\ Len(log) = i =>
          IF i = Len(targets) THEN pc = "done" /\ result = "ok"
          ELSE pc = "loop" /\ idx = i + 1 /\ result = "none"
    /\ Len(log) > i => log[i + 1].id = targets[i + 1]

----------------------------------------------------------------------------
(* C1: when A declares B as a dependency, a call without skip that processes
   A while B is pending never invokes A.run() and leaves A's state unchanged,
   in memory and in the store. *)
C1_PendingDependencyBlocks ==
    ~args.skip =>
        \A i \in Entries :
            (\E B \in DeclaredDependencies(log[i].id) : log[i].mem[B] = "pending")
            => /\ ~RunInvoked(log[i])
               /\ log[i].outcome \in Rejections
               /\ Untouched(i)

C1_Witness ==
    /\ pc = "done"
    /\ ~args.skip
    /\ \E i \in Entries :
          /\ \E B \in DeclaredDependencies(log[i].id) : log[i].mem[B] = "pending"
          /\ log[i].outcome = "migrations_dependencies_not_satisfied"
          /\ log[i].mem[log[i].id] = "pending"

(* C2: in a call without force_rerun each migration's run() completes
   successfully at most once, and run() is never invoked on a migration whose
   state is done or skipped. *)
C2_RunAtMostOnce ==
    ~args.force_rerun =>
        /\ \A i \in Entries :
              RunInvoked(log[i]) => log[i].mem[log[i].id] = "pending"
        /\ \A i, j \in Entries :
              /\ log[i].id = log[j].id
              /\ log[i].outcome = "migrations_success_forward"
              /\ log[j].outcome = "migrations_success_forward"
              => i = j

(* C3: a call that ends by raising a validation error has invoked no run()
   and left the store as it was before the call. *)
C3_ValidationErrorMutatesNothing ==
    (pc = "done" /\ result \in ValidationErrors) =>
        /\ \A i \in Entries : ~RunInvoked(log[i])
        /\ store = store0

(* C4: a call with more than one of skip, auto, force_rerun raises the
   exclusive-options validation error, whatever the targets and the store,
   without invoking a migration and without writing the store. *)
C4_ExclusiveFlagsRejected ==
    (pc # "idle" /\ FlagCount(args) > 1) =>
        /\ pc = "done"
        /\ result = "migrations_exclusive_options"
        /\ log = <<>>
        /\ store = store0

C4_Witness ==
    /\ pc = "done"
    /\ args.skip /\ args.auto
    /\ args.targets # <<>>
    /\ store # EmptyStore
    /\ result = "migrations_exclusive_options"

(* C5, as stated: without skip a migration is run only if every declared
   dependency is done; a skipped dependency leaves the dependent un-run. *)
C5_RunOnlyIfDependenciesDone ==
    ~args.skip =>
        \A i \in Entries :
            RunInvoked(log[i]) =>
                \A B \in DeclaredDependencies(log[i].id) : log[i].mem[B] = "done"

(* C5, amended: without skip a migration is run only if none of its declared
   dependencies is pending, and it is rejected for unmet dependencies only
   when one of them is pending: a skipped dependency counts as satisfied. *)
C5_RunOnlyIfNoDependencyPending ==
    ~args.skip =>
        \A i \in Entries :
            /\ RunInvoked(log[i]) =>
                  \A B \in DeclaredDependencies(log[i].id) : log[i].mem[B] # "pending"
            /\ log[i].outcome = "migrations_dependencies_not_satisfied" =>
                  \E B \in DeclaredDependencies(log[i].id) : log[i].mem[B] = "pending"

C5_Witness ==
    /\ pc = "done"
    /\ ~args.skip
    /\ \E i \in Entries :
          /\ log[i].outcome = "migrations_success_forward"
          /\ \E B \in DeclaredDependencies(log[i].id) : log[i].mem[B] = "skipped"

(* C6: in a call with accept_disclaimer=True the acceptance serves the first
   target that needed it only: every later target with a disclaimer is
   stopped at a gate, run() is not invoked on it and it keeps its state, so
   at most one migration with a disclaimer is executed. *)
C6_DisclaimerAcceptedOnce ==
    args.accept_disclaimer =>
        \A i, j \in Entries :
            /\ i < j
            /\ HasDisclaimer(log[i].id) /\ RunInvoked(log[i])
            /\ HasDisclaimer(log[j].id)
            => /\ ~RunInvoked(log[j])
               /\ log[j].outcome \in Rejections
               /\ Untouched(j)

C6_Witness ==
    /\ pc = "done"
    /\ args.accept_disclaimer
    /\ \E i, j \in Entries :
          /\ i < j
          /\ log[i].id # log[j].id
          /\ HasDisclaimer(log[i].id)
          /\ log[i].outcome = "migrations_success_forward"
          /\ log[j].outcome = "migrations_need_to_accept_disclaimer"
          /\ log[j].mem[log[j].id] = "pending"

(* C7, as stated: in a call with accept_disclaimer false a migration with a
   disclaimer never has run() invoked, is left in its prior state, and the
   loop continues with the next target. *)
C7_DisclaimerNotAccepted ==
    ~args.accept_disclaimer =>
        \A i \in Entries :
            HasDisclaimer(log[i].id) =>
                /\ ~RunInvoked(log[i])
                /\ Untouched(i)
                /\ log[i].outcome # "migrations_no_such_migration"
                       => LoopContinuedAfter(i)

(* C7, amended: in a call with accept_disclaimer false and skip not set, a
   migration with a disclaimer never has run() invoked; it is stopped at a
   gate with its state unchanged and, unless resolving its dependencies
   raised, the loop continues with the next target. *)
C7_DisclaimerNotAcceptedNoSkip ==
    (~args.accept_disclaimer /\ ~args.skip) =>
        \A i \in Entries :
            HasDisclaimer(log[i].id) =>
                /\ ~RunInvoked(log[i])
                /\ log[i].outcome \in Rejections
                /\ Untouched(i)
                /\ log[i].outcome # "migrations_no_such_migration"
                       => LoopContinuedAfter(i)

C7_Witness ==
    /\ pc = "done"
    /\ ~args.accept_disclaimer
    /\ ~args.skip
    /\ \E i, j \in Entries :
          /\ i < j
          /\ HasDisclaimer(log[i].id)
          /\ log[i].outcome = "migrations_need_to_accept_disclaimer"
          /\ log[j].outcome = "migrations_success_forward"

(* C8: in a call with auto=True a manual migration is never run and never
   changes state: it stays pending, only the warning is issued, and the loop
   continues with the remaining targets. *)
C8_AutoNeverRunsManual ==
    args.auto =>
        \A i \in Entries :
            registry[log[i].id].mode = "manual" =>
                /\ log[i].outcome = "migrations_to_be_ran_manually"
                /\ log[i].mem[log[i].id] = "pending"
                /\ Untouched(i)
                /\ LoopContinuedAfter(i)

C8_Witness ==
    /\ pc = "done"
    /\ args.auto
    /\ result = "ok"
    /\ \E i, j \in Entries :
          /\ i < j
          /\ registry[log[i].id].mode = "manual"
          /\ log[i].outcome = "migrations_to_be_ran_manually"
          /\ log[j].outcome = "migrations_success_forward"

(* C9: when run() raises the error is caught: the call does not end there,
   the loop goes on with the next target in order, and a call that returns
   normally has processed every target in order. *)
C9_FailureDoesNotStopLoop ==
    /\ \A i \in Entries :
          /\ log[i].id = targets[i]
          /\ log[i].outcome = "migrations_migration_has_failed"
                => LoopContinuedAfter(i)
    /\ (pc = "done" /\ result = "ok") => Len(log) = Len(targets)

C9_Witness ==
    /\ pc = "done"
    /\ result = "ok"
    /\ \E i, j \in Entries :
          /\ i < j
          /\ log[i].outcome = "migrations_migration_has_failed"
          /\ log[j].outcome = "migrations_success_forward"

(* C10, as stated: after run() raised, in any mode including force_rerun,
   every later target that declares the failed migration as a dependency is
   rejected and not executed. *)
C10_FailureBlocksDependents ==
    \A i, j \in Entries :
        /\ i < j
        /\ log[i].outcome = "migrations_migration_has_failed"
        /\ log[i].id \in DeclaredDependencies(log[j].id)
        => /\ ~RunInvoked(log[j])
           /\ log[j].outcome \in Rejections

(* C10, amended: a run() that raises leaves every state as it was; when the
   failed migration was pending, every later target that declares it as a
   dependency is rejected and not executed for as long as no later iteration
   has run it successfully.  (Under force_rerun the failed migration keeps
   done or skipped and its dependents are executed.) *)
C10_FailedPendingBlocksDependents ==
    \A i \in Entries :
        log[i].outcome = "migrations_migration_has_failed" =>
            /\ Untouched(i)
            /\ \A j \in Entries :
                  /\ i < j
                  /\ log[i].mem[log[i].id] = "pending"
                  /\ log[i].id \in DeclaredDependencies(log[j].id)
                  /\ \A k \in Entries :
                        (i < k /\ k < j /\ log[k].id = log[i].id)
                        => log[k].outcome # "migrations_success_forward"
                  => /\ ~RunInvoked(log[j])
                     /\ log[j].outcome \in Rejections

C10_Witness ==
    /\ pc = "done"
    /\ \E i, j \in Entries :
          /\ i < j
          /\ log[i].outcome = "migrations_migration_has_failed"
          /\ log[i].id \in DeclaredDependencies(log[j].id)
          /\ log[j].outcome = "migrations_dependencies_not_satisfied"

\* the explicit targets of the call, resolved against the loaded list
ResolvedArgs ==
    [i \in 1..Len(args.targets) |->
        get_matching_migration(all_migrations, args.targets[i])]

AllArgsResolve == \A i \in 1..Len(args.targets) : ResolvedArgs[i] # NoMigration

\* the call raised before the loop, having run and written nothing
RaisedBeforeLoop(key) ==
    /\ pc = "done"
    /\ result = key
    /\ log = <<>>
    /\ store = store0

(* C11: after a run with defaulted targets in which every pending migration
   ran successfully no migration is pending, and a run with defaulted targets
   that finds no pending migration invokes no run(), writes nothing and
   reports that there is nothing to do. *)
C11_SecondDefaultRunIsNoOp ==
    /\ ( /\ pc = "done" /\ result = "ok" /\ args.targets = <<>>
         /\ \A i \in Entries : log[i].outcome = "migrations_success_forward" )
       => \A id \in DOMAIN registry : id \in DOMAIN store
    /\ ( /\ pc # "idle" /\ args.targets = <<>>
         /\ ~args.skip /\ ~args.force_rerun
         /\ \A id \in DOMAIN registry : id \in DOMAIN store0 )
       => RaisedBeforeLoop("migrations_no_migrations_to_run")

C11_Witness ==
    /\ pc = "done"
    /\ args.targets = <<>>
    /\ result = "migrations_no_migrations_to_run"
    /\ \A id \in DOMAIN registry : id \in DOMAIN store /\ store[id] = "done"

\* every dependency reference resolves to a migration of lower ordinal
DependenciesHaveLowerOrdinal ==
    \A A \in DOMAIN registry :
        \A k \in 1..Len(registry[A].dependencies) :
            LET B == get_matching_migration(all_migrations, registry[A].dependencies[k])
            IN  B # NoMigration /\ Number(B) < Number(A)

(* C12: from an empty store, with every dependency of lower ordinal than its
   dependent, no disclaimer and no failing run(), a run with no targets
   executes every migration exactly once, each after its dependencies, and
   ends with every migration persisted as done. *)
C12_FreshDefaultRunCompletesAll ==
    ( /\ pc = "done"
      /\ args.targets = <<>> /\ FlagCount(args) = 0
      /\ store0 = EmptyStore
      /\ DependenciesHaveLowerOrdinal
      /\ \A id \in DOMAIN registry : ~HasDisclaimer(id)
      /\ \A i \in Entries : log[i].outcome # "migrations_migration_has_failed" )
    => /\ \A id \in DOMAIN registry :
             /\ id \in DOMAIN store /\ store[id] = "done"
             /\ Cardinality({ i \in Entries : log[i].id = id /\ RunInvoked(log[i]) }) = 1
       /\ \A i, j \in Entries :
             (RunInvoked(log[j]) /\ log[i].id \in DeclaredDependencies(log[j].id)
                /\ RunInvoked(log[i]))
             => i < j

(* C13: a run with skip=True sets every target to skipped and invokes no
   run(), whatever the dependencies and the disclaimers; the acceptance is
   neither required nor consumed. *)
C13_SkipMarksSkipped ==
    (pc # "idle" /\ args.skip) =>
        /\ accept_disclaimer = args.accept_disclaimer
        /\ \A i \in Entries :
              /\ log[i].outcome = "migrations_skip_migration"
              /\ log[i].after = [log[i].mem EXCEPT ![log[i].id] = "skipped"]
              /\ log[i].id \in DOMAIN log[i].stored
              /\ log[i].stored[log[i].id] = "skipped"
        /\ (pc = "done" /\ result = "ok") =>
              /\ Len(log) = Len(targets)
              /\ \A i \in 1..Len(targets) :
                    targets[i] \in DOMAIN store /\ store[targets[i]] = "skipped"

C13_Witness ==
    /\ pc = "done"
    /\ args.skip
    /\ ~args.accept_disclaimer
    /\ result = "ok"
    /\ \E i \in Entries :
          /\ HasDisclaimer(log[i].id)
          /\ \E B \in DeclaredDependencies(log[i].id) : log[i].mem[B] = "pending"
          /\ log[i].mem[log[i].id] = "pending"
          /\ store[log[i].id] = "skipped"

(* C14: under force_rerun a skipped target whose dependencies are satisfied
   (and whose disclaimer, if any, is accepted) has run() invoked, and when
   run() succeeds its state is overwritten from skipped to done, in memory
   and in the store. *)
C14_ForceRerunOverwritesSkipped ==
    args.force_rerun =>
        \A i \in Entries :
            log[i].mem[log[i].id] = "skipped" =>
                /\ ( /\ \A k \in 1..Len(registry[log[i].id].dependencies) :
                           LET B == get_matching_migration(all_migrations,
                                        registry[log[i].id].dependencies[k])
                           IN  B # NoMigration /\ log[i].mem[B] # "pending"
                     /\ HasDisclaimer(log[i].id) => log[i].accept )
                   => RunInvoked(log[i])
                /\ log[i].outcome = "migrations_success_forward" =>
                      /\ log[i].after[log[i].id] = "done"
                      /\ log[i].id \in DOMAIN log[i].stored
                      /\ log[i].stored[log[i].id] = "done"

C14_Witness ==
    /\ pc = "done"
    /\ args.force_rerun
    /\ \E i \in Entries :
          /\ log[i].mem[log[i].id] = "skipped"
          /\ store0[log[i].id] = "skipped"
          /\ DeclaredDependencies(log[i].id) # {}
          /\ log[i].outcome = "migrations_success_forward"
          /\ store[log[i].id] = "done"

(* C15: with explicit targets and without force_rerun, a call one of whose
   resolved targets is not pending raises a validation error, and no target,
   pending or not, is skipped or executed. *)
C15_NotPendingTargetRejected ==
    ( /\ pc # "idle"
      /\ args.targets # <<>> /\ ~args.force_rerun /\ FlagCount(args) <= 1
      /\ AllArgsResolve
      /\ \E i \in 1..Len(args.targets) : ResolvedArgs[i] \in DOMAIN store0 )
    => RaisedBeforeLoop(IF args.skip THEN "migrations_not_pending_cant_skip"
                        ELSE "migrations_already_ran")

C15_Witness ==
    /\ pc = "done"
    /\ args.skip
    /\ result = "migrations_not_pending_cant_skip"
    /\ \E i, j \in 1..Len(args.targets) :
          /\ ResolvedArgs[i] \in DOMAIN store0
          /\ ResolvedArgs[j] \notin DOMAIN store0

(* C16: with explicit targets and force_rerun, a call one of whose resolved
   targets is still pending raises a validation error, and no target, decided
   or not, is executed. *)
C16_PendingTargetCannotRerun ==
    ( /\ pc # "idle"
      /\ args.targets # <<>> /\ args.force_rerun /\ FlagCount(args) = 1
      /\ AllArgsResolve
      /\ \E i \in 1..Len(args.targets) : ResolvedArgs[i] \notin DOMAIN store0 )
    => RaisedBeforeLoop("migrations_pending_cant_rerun")

C16_Witness ==
    /\ pc = "done"
    /\ args.force_rerun
    /\ result = "migrations_pending_cant_rerun"
    /\ \E i, j \in 1..Len(args.targets) :
          /\ ResolvedArgs[i] \in DOMAIN store0
          /\ ResolvedArgs[j] \notin DOMAIN store0

(* C17: with no targets given, the call raises a validation error when skip
   or force_rerun is set; otherwise its targets are exactly the discovered
   migrations that were pending when the list was loaded. *)
C17_DefaultTargetsArePending ==
    (pc # "idle" /\ args.targets = <<>>) =>
        IF args.skip \/ args.force_rerun
        THEN \/ RaisedBeforeLoop("migrations_must_provide_explicit_targets")
             \/ FlagCount(args) > 1 /\ RaisedBeforeLoop("migrations_exclusive_options")
        ELSE /\ { targets[i] : i \in 1..Len(targets) }
                  = { id \in DOMAIN registry : id \notin DOMAIN store0 }
             /\ \A i, j \in 1..Len(targets) : targets[i] = targets[j] => i = j

C17_Witness ==
    /\ pc = "loop"
    /\ args.targets = <<>>
    /\ store0 # EmptyStore
    /\ Len(targets) = 2
    /\ \A i \in 1..Len(targets) : targets[i] \notin DOMAIN store0

(* C18: resolving a reference by id, slug or ordinal yields the migration
   only when exactly one discovered migration matches; with no match or with
   more than one the no-such-migration error is raised. *)
C18_ResolvesOnlyUniqueMatch ==
    lookup.target # "" =>
        LET matching ==
                { m \in DOMAIN registry :
                    \/ m = lookup.target
                    \/ SplitName(Chars[m]) = Chars[lookup.target]
                    \/ SplitHead(Chars[m]) = Chars[lookup.target] }
        IN  IF Cardinality(matching) = 1
            THEN lookup.found \in matching
            ELSE lookup.found = NoMigration

(* C19: the list _get_migrations_list returns, which is the order of a run
   with defaulted targets, is ascending in the integer ordinal of the ids. *)
C19_ListSortedByOrdinal ==
    pc # "idle" =>
        \A i, j \in 1..Len(all_migrations) :
            i < j => Number(all_migrations[i]) <= Number(all_migrations[j])

\* the outcomes of the iterations that call _write_migration_state
WritingOutcomes == {"migrations_skip_migration", "migrations_success_forward"}

(* C20: a write of the entry of id leaves every other entry that the store
   held when the write re-read it as it was, entries written by another
   invocation after the migration list was loaded included; an iteration
   that does not write leaves the store as it is. *)
C20_WritePreservesOtherEntries ==
    \A i \in Entries :
        IF log[i].outcome \in WritingOutcomes
        THEN /\ DOMAIN log[i].stored = DOMAIN log[i].found \cup {log[i].id}
             /\ \A x \in DOMAIN log[i].found \ {log[i].id} :
                   log[i].stored[x] = log[i].found[x]
        ELSE log[i].stored = log[i].found

C20_Witness ==
    \E i \in Entries :
        /\ log[i].outcome \in WritingOutcomes
        /\ \E x \in DOMAIN log[i].found \ {log[i].id} :
              /\ x \notin DOMAIN store0
              /\ log[i].mem[x] = "pending"
              /\ log[i].stored[x] = log[i].found[x]

\* the ids of the dictionaries of the last listing
ListedIds == { listed.migrations[i].id : i \in 1..Len(listed.migrations) }

(* C21: right after _skip_all_migrations every discovered migration is
   skipped in the store; the installed marker exists only after that; and
   once it exists a run with no targets finds nothing to run, and run() is
   invoked only by an explicit force_rerun. *)
C21_PostinstallSkipsHistory ==
    /\ postinstall = "migrations_skipped" =>
          /\ state_file_exists
          /\ \A id \in DOMAIN registry : id \in DOMAIN store /\ store[id] = "skipped"
    /\ postinstall = "installed" =>
          /\ \A id \in DOMAIN registry : id \in DOMAIN store
          /\ (pc # "idle" /\ args.targets = <<>> /\ ~args.skip /\ ~args.force_rerun)
                => RaisedBeforeLoop("migrations_no_migrations_to_run")
          /\ \A i \in Entries : RunInvoked(log[i]) => args.force_rerun

C21_Witness ==
    /\ postinstall = "installed"
    /\ pc = "done"
    /\ args.targets = <<>>
    /\ result = "migrations_no_migrations_to_run"
    /\ \A id \in DOMAIN registry : store[id] = "skipped"

(* C22: an entry of the store whose id is not discovered is never listed,
   never loaded or selected as a target, a migration that names it as a
   dependency is never run, and no entry is written or changed for an id
   that is not discovered. *)
C22_StaleEntryIsNoMigration ==
    /\ ListedIds \subseteq DOMAIN registry
    /\ \A i \in 1..Len(all_migrations) : all_migrations[i] \in DOMAIN registry
    /\ \A i \in 1..Len(targets) : targets[i] \in DOMAIN registry
    /\ \A i \in Entries :
          RunInvoked(log[i]) =>
              \A k \in 1..Len(registry[log[i].id].dependencies) :
                  registry[log[i].id].dependencies[k] \notin
                      DOMAIN log[i].found \ DOMAIN registry
    /\ \A x \in DOMAIN store \ DOMAIN registry : x \in DOMAIN StaleStore /\ store[x] = StaleStore[x]
    /\ \A i \in Entries :
          \A x \in DOMAIN log[i].stored \ DOMAIN registry :
              x \in DOMAIN log[i].found /\ log[i].stored[x] = log[i].found[x]

C22_Witness ==
    /\ pc = "done"
    /\ "10_c" \in DOMAIN store0
    /\ "10_c" \notin DOMAIN registry
    /\ registry["2_b"].dependencies = <<"10_c">>
    /\ \E i \in Entries :
          /\ log[i].id = "2_b"
          /\ ~args.skip
          /\ log[i].outcome = "migrations_no_such_migration"

(* C23: while the state file does not exist tools_migrations_state is the
   empty mapping, every discovered migration is loaded and listed as pending,
   and the first write makes a store that holds the written entry only. *)
C23_MissingFileIsEmpty ==
    /\ ~state_file_exists =>
          /\ tools_migrations_state = EmptyStore
          /\ (pc # "idle" /\ ~LoadFailure) =>
                /\ { all_migrations[i] : i \in 1..Len(all_migrations) } = DOMAIN registry
                /\ \A id \in DOMAIN registry : state[id] = "pending"
          /\ (listed.called /\ listed.error = "none") =>
                /\ \A i \in 1..Len(listed.migrations) :
                      listed.migrations[i].state = "pending"
                /\ ListedIds = (IF listed.done THEN {} ELSE DOMAIN registry)
    /\ (pc # "idle" /\ store0 = EmptyStore) =>
          \A i \in Entries :
              (log[i].found = EmptyStore /\ log[i].outcome \in WritingOutcomes) =>
                  /\ state_file_exists
                  /\ DOMAIN log[i].stored = {log[i].id}
                  /\ log[i].stored[log[i].id] = log[i].after[log[i].id]

C23_Witness ==
    /\ pc = "done"
    /\ store0 = EmptyStore
    /\ state_file_exists
    /\ Len(log) = 1
    /\ log[1].found = EmptyStore
    /\ store = [x \in {log[1].id} |-> "done"]

(* C24: when a file of the directory cannot be loaded, tools_migrations_list
   and tools_migrations_run raise the load error, nothing is run and the
   store is as it was; a listing or a run that does not raise it has every
   file of the directory in its list. *)
C24_LoadErrorIsFatal ==
    /\ (LoadFailure /\ pc # "idle") =>
          RaisedBeforeLoop("migrations_failed_to_load_migration")
    /\ (LoadFailure /\ listed.called /\ ~(listed.pending /\ listed.done)) =>
          /\ listed.error = "migrations_failed_to_load_migration"
          /\ listed.migrations = <<>>
    /\ LoadFailure =>
          /\ postinstall = "not_run"
          /\ \/ ~state_file_exists /\ store = EmptyStore
             \/ state_file_exists /\ store = StaleStore
    /\ (pc # "idle" /\ result # "migrations_failed_to_load_migration") =>
          /\ broken = {}
          /\ { all_migrations[i] : i \in 1..Len(all_migrations) } = DOMAIN registry
    /\ (listed.called /\ listed.error = "none") =>
          /\ broken = {}
          /\ (~listed.pending /\ ~listed.done) => ListedIds = DOMAIN registry

C24_Witness ==
    /\ broken # {}
    /\ pc = "done"
    /\ args.targets = <<>>
    /\ FlagCount(args) = 0
    /\ result = "migrations_failed_to_load_migration"
    /\ store = StaleStore

\* the commands of the last wrapped run with the given operation
CommandsOf(op) ==
    { i \in 1..Len(ldap_run.commands) : ldap_run.commands[i].op = op }

BodyRaised == \E i \in CommandsOf("run") : ~ldap_run.commands[i].ok

AllCopiesSucceeded ==
    \A i \in CommandsOf("cp_backup") \cup CommandsOf("cp_restore") :
        ldap_run.commands[i].ok

(* C25: after a wrapped body raised, all copies of the backup and of the
   rollback having succeeded, the watched files are what they were before
   the migration started. *)
C25_RollbackRestoresExactly ==
    (ldap_run.invoked /\ BodyRaised /\ AllCopiesSucceeded) =>
        live = ldap_run.before

(* C26: on every exit of the wrapper each stop of slapd is followed by a
   start, so slapd is running when the wrapper returns or raises. *)
C26_ServiceStartedOnEveryExit ==
    /\ slapd = "running"
    /\ \A i \in CommandsOf("stop") : \E j \in CommandsOf("start") : i < j

C26_Witness ==
    /\ ldap_run.invoked
    /\ BodyRaised
    /\ \E i \in CommandsOf("cp_restore") : ~ldap_run.commands[i].ok
    /\ Cardinality(CommandsOf("stop")) = 2
    /\ slapd = "running"

(* C27: when the backup folder cannot be created or one of the copies of the
   backup fails, the wrapper raises without invoking the body and the
   watched files are untouched. *)
C27_NoBackupNoBody ==
    ( /\ ldap_run.invoked
      /\ \/ \E i \in CommandsOf("makedirs") : ~ldap_run.commands[i].ok
         \/ \E i \in CommandsOf("cp_backup") : ~ldap_run.commands[i].ok )
    => /\ CommandsOf("run") = {}
       /\ Raises(ldap_run.commands)
       /\ live = ldap_run.before

\* the operations of the commands executed after command i, the messages
\* to the logger left out
OpsAfter(i) ==
    LET rest == SelectSeq(SubSeq(ldap_run.commands, i + 1, Len(ldap_run.commands)),
                          LAMBDA c : c.op # "log")
    IN  [k \in 1..Len(rest) |-> rest[k].op]

(* C28: when the wrapped body raises, the wrapper stops slapd, erases the
   live configuration, copies the backup back, starts slapd, deletes the
   backup and raises again, in that order; the run loop records the
   migration as failed and leaves its state and the store as they were. *)
C28_RollbackOrderThenFailed ==
    (ldap_run.invoked /\ BodyRaised) =>
        /\ \A i \in CommandsOf("run") :
              OpsAfter(i) = << "stop", "rm_slapd_d", "cp_restore", "cp_restore",
                               "cp_restore", "start", "rm_backup", "raise" >>
        /\ log # <<>>
        /\ LET e == log[Len(log)]
           IN  /\ e.outcome = "migrations_migration_has_failed"
               /\ e.after = e.mem
               /\ e.after[e.id] # "done" \/ e.mem[e.id] = "done"
               /\ e.stored = e.found
               /\ store = e.found

C28_Witness ==
    /\ ldap_run.invoked
    /\ BodyRaised
    /\ pc = "done"
    /\ result = "ok"
    /\ log[1].outcome = "migrations_migration_has_failed"
    /\ "1_a" \notin DOMAIN store

\* the migrations whose hook the last hook runner had to invoke
HookEligible ==
    { id \in DOMAIN registry :
        /\ registry[id].introduced_in_version > restore.backup_version
        /\ registry[id][restore.hook] }

(* C29: a restore-time hook runner invokes hooks of eligible migrations
   only, in ascending order of their ordinal; every hook before the last
   invoked one returned; if a hook raised it is the last one invoked and
   every eligible migration of lower ordinal had its hook invoked; if none
   raised every eligible migration had its hook invoked. *)
C29_HooksAscendingUntilFailure ==
    restore.called =>
        LET inv == restore.invoked
        IN  /\ \A i \in 1..Len(inv) : inv[i] \in HookEligible
            /\ \A i, j \in 1..Len(inv) : i < j => Number(inv[i]) < Number(inv[j])
            /\ \A i \in 1..(Len(inv) - 1) : inv[i] \notin restore.failing
            /\ IF restore.raised
               THEN /\ inv # <<>>
                    /\ inv[Len(inv)] \in restore.failing
                    /\ \A id \in HookEligible :
                          Number(id) < Number(inv[Len(inv)]) =>
                              \E i \in 1..Len(inv) : inv[i] = id
               ELSE { inv[i] : i \in 1..Len(inv) } = HookEligible

DistUpgradeStarted == upgrade.script \in {"upgrading", "ended"}

\* the statement of C30 as it stands: the dist-upgrade never starts while the
\* lock file exists, tools_upgrade returns, and once the lock file is removed
\* the dist-upgrade starts
C30_NeverStartsWhileLockExists ==
    /\ [](DistUpgradeStarted => upgrade.lock_at_start = "none")
    /\ (upgrade.caller = "launched") ~> (upgrade.caller \in {"returned", "ended"})
    /\ (upgrade.script = "waiting" /\ lock = "none") ~> DistUpgradeStarted

(* C30: the detached script leaves its loop only on a test that finds no
   lock file and starts the dist-upgrade only after that, hence never while
   the lock of the tools_upgrade command that launched it is in place;
   tools_upgrade returns while the script is still waiting; and if the lock
   file is removed and not created again the dist-upgrade eventually starts.
   (A lock file created by another command after the test does not stop
   the dist-upgrade.) *)
C30_StartsAfterLockSeenAbsent ==
    /\ [][(upgrade.script = "waiting" /\ upgrade'.script # "waiting")
            => (lock = "none" /\ upgrade'.script = "passed")]_vars
    /\ [][(upgrade.script # "upgrading" /\ upgrade'.script = "upgrading")
            => upgrade.script = "passed"]_vars
    /\ [](DistUpgradeStarted =>
            (upgrade.lock_at_start # "upgrade" /\ upgrade.caller = "ended"))
    /\ [](upgrade.caller = "launched" => upgrade.script = "waiting")
    /\ (upgrade.caller = "launched") ~> (upgrade.caller \in {"returned", "ended"})
    /\ (<>[](lock = "none")) =>
           ((upgrade.script = "waiting") ~> DistUpgradeStarted)

C30_Witness ==
    /\ upgrade.script = "upgrading"
    /\ upgrade.sleeps >= 1
    /\ upgrade.caller = "ended"
    /\ upgrade.outcome = "detached"
    /\ upgrade.lock_at_start = "none"

\* the outcomes of the iterations in which the outcome of the migration
\* became known: skipped, run() returned, run() raised
KnownOutcomes == WritingOutcomes \cup {"migrations_migration_has_failed"}

\* the migrations of the iterations with one of these outcomes, in order
IdsOfOutcomes(outs) ==
    LET sel == SelectSeq(log, LAMBDA e : e.outcome \in outs)
    IN  [k \in 1..Len(sel) |-> sel[k].id]

WrittenIds == [k \in 1..Len(written) |-> written[k].id]

\* the state each writing outcome writes
WrittenState(outcome) ==
    IF outcome = "migrations_skip_migration" THEN "skipped" ELSE "done"

\* C31 as stated: between any two iterations the writes made so far are one
\* per migration skipped, run with success or run with failure, in order
C31_OneWritePerKnownOutcome ==
    WrittenIds = IdsOfOutcomes(KnownOutcomes)

(* C31: between any two iterations, and when the call returns, the writes
   completed so far are exactly one per migration that was skipped or whose
   run() returned, in the order of the targets, each of the state that
   outcome gives (skipped, done) and each visible in the store the iteration
   left; an iteration whose run() raised, like one stopped at a gate, makes
   no write. *)
C31_OneWritePerSuccessOrSkip ==
    LET sel == SelectSeq(log, LAMBDA e : e.outcome \in WritingOutcomes)
    IN  /\ Len(written) = Len(sel)
        /\ \A k \in 1..Len(sel) :
              /\ written[k] = [id |-> sel[k].id, state |-> WrittenState(sel[k].outcome)]
              /\ sel[k].id \in DOMAIN sel[k].stored
              /\ sel[k].stored[sel[k].id] = written[k].state
        /\ \A i \in Entries :
              log[i].outcome \notin WritingOutcomes => log[i].stored = log[i].found

C31_Witness ==
    /\ pc = "loop"
    /\ Len(log) = 2
    /\ log[1].outcome = "migrations_migration_has_failed"
    /\ log[2].outcome = "migrations_success_forward"
    /\ written = <<[id |-> log[2].id, state |-> "done"]>>
    /\ store = [x \in {log[2].id} |-> "done"]

\* the iterations that passed the gates, in order
UnitsOfWork == SelectSeq(log, LAMBDA e : e.outcome \in KnownOutcomes)

\* the closings of the audit records that report a success, in order
SuccessClosings == SelectSeq(operations, LAMBDA o : o.op = "success")

(* C32: between any two iterations, and when the call returns, the audit
   records are one per target that passed the gates, in order, each opened
   once and closed once: as a success exactly when the iteration wrote the
   migration's state as done or skipped, as an error exactly when run()
   raised; a target stopped at a gate has none. *)
C32_OneAuditRecordPerUnitOfWork ==
    /\ Len(operations) = 2 * Len(UnitsOfWork)
    /\ \A k \in 1..Len(UnitsOfWork) :
          LET e == UnitsOfWork[k]
          IN  /\ operations[2 * k - 1] = [op |-> "start", id |-> e.id]
              /\ operations[2 * k].id = e.id
              /\ operations[2 * k].op \in {"success", "error"}
              /\ operations[2 * k].op = "success" <=>
                    /\ e.outcome \in WritingOutcomes
                    /\ e.id \in DOMAIN e.stored
                    /\ e.stored[e.id] = e.after[e.id]
                    /\ e.after[e.id] \in {"done", "skipped"}
              /\ operations[2 * k].op = "error" <=>
                    e.outcome = "migrations_migration_has_failed"
    /\ Len(SuccessClosings) = Len(written)
    /\ \A k \in 1..Len(written) : SuccessClosings[k].id = written[k].id

C32_Witness ==
    /\ pc = "loop"
    /\ Len(log) = 2
    /\ log[1].outcome = "migrations_need_to_accept_disclaimer"
    /\ log[2].outcome = "migrations_migration_has_failed"
    /\ operations = <<[op |-> "start", id |-> log[2].id],
                      [op |-> "error", id |-> log[2].id]>>

\* the keys of the messages the wrapper gave to the logger
MessagesLogged ==
    { ldap_run.commands[i].tree : i \in CommandsOf("log") }

RestoreCopyFailed == \E i \in CommandsOf("cp_restore") : ~ldap_run.commands[i].ok

(* C33: when a copy of the rollback fails the wrapper raises, logs
   something other than the messages of a rollback that went well, and does
   not report migration_ldap_rollback_success; and it reports a successful
   rollback only if the three copies of the rollback succeeded. *)
C33_FailedRollbackNotReportedAsSuccess ==
    ldap_run.invoked =>
        /\ RestoreCopyFailed =>
              /\ Raises(ldap_run.commands)
              /\ "migration_ldap_rollback_success" \notin MessagesLogged
              /\ MessagesLogged \ {"migration_ldap_migration_failed_trying_to_rollback"}
                    # {}
        /\ "migration_ldap_rollback_success" \in MessagesLogged
              => /\ ~RestoreCopyFailed
                 /\ BodyRaised

(* C34: an iteration whose run() raised leaves the state of every loaded
   migration and the whole store as it found them; the migration's entry in
   the store still agrees with its state: none while it is pending, and
   under force_rerun the done or skipped entry it had. *)
C34_FailureLeavesStateAsItWas ==
    \A i \in Entries :
        log[i].outcome = "migrations_migration_has_failed" =>
            LET id == log[i].id
            IN  /\ log[i].after = log[i].mem
                /\ log[i].stored = log[i].found
                /\ log[i].mem[id] = "pending" => id \notin DOMAIN log[i].stored
                /\ args.force_rerun =>
                      /\ log[i].mem[id] \in {"done", "skipped"}
                      /\ id \in DOMAIN log[i].stored
                      /\ log[i].stored[id] = log[i].mem[id]
                /\ Len(log) = i => (state = log[i].mem /\ store = log[i].found)

C34_Witness ==
    /\ pc = "done"
    /\ args.force_rerun
    /\ Len(log) = 2
    /\ log[1].outcome = "migrations_migration_has_failed"
    /\ log[1].mem[log[1].id] = "skipped"
    /\ log[2].outcome = "migrations_migration_has_failed"
    /\ log[2].mem[log[2].id] = "done"
    /\ store[log[1].id] = "skipped"
    /\ store[log[2].id] = "done"

\* a change of the state of a migration that tools_migrations_run may make
AllowedTransition(before, after) ==
    \/ before = "pending" /\ after \in {"done", "skipped"}
    \/ args.force_rerun /\ before \in {"skipped", "done"} /\ after = "done"

(* C35: the store file holds no value but done and skipped, and whenever a
   step of tools_migrations_run changes the state of a migration, in the
   store file or on the loaded object, the change is pending to done,
   pending to skipped or, with force_rerun, skipped or done to done. *)
C35_StatesOnlyMoveForward ==
    /\ [](\A id \in DOMAIN store : store[id] \in {"done", "skipped"})
    /\ [][\A id \in DOMAIN registry :
            LET before == LoadedState(tools_migrations_state, id)
                after  == LoadedState(tools_migrations_state', id)
            IN  before # after => (pc = "loop" /\ AllowedTransition(before, after))]_vars
    /\ [](\A i \in Entries : \A id \in DOMAIN registry :
            log[i].mem[id] # log[i].after[id] =>
                /\ id = log[i].id
                /\ AllowedTransition(log[i].mem[id], log[i].after[id]))

C35_Witness ==
    /\ pc = "done"
    /\ args.force_rerun
    /\ Len(log) = 2
    /\ log[1].mem[log[1].id] = "skipped" /\ log[1].after[log[1].id] = "done"
    /\ log[2].mem[log[2].id] = "done" /\ log[2].after[log[2].id] = "done"
    /\ log[1].id # log[2].id
    /\ \E id \in DOMAIN store : store[id] = "skipped"

\* the acceptance as iteration i left it
AcceptAfter(i) == IF i < Len(log) THEN log[i + 1].accept ELSE accept_disclaimer

(* C36: the acceptance the first iteration finds is the argument; an
   iteration changes it only by clearing it, and does so exactly when its
   target has a disclaimer, the call is not a skip, the acceptance was
   still there and the target passed the mode check and the dependency
   check (run() is then invoked, whether it returns or raises); a target
   stopped at the mode check or the dependency check leaves it as it was;
   once cleared it stays cleared. *)
C36_AcceptanceConsumedAfterGates ==
    /\ log # <<>> => log[1].accept = args.accept_disclaimer
    /\ \A i \in Entries :
          /\ AcceptAfter(i) # log[i].accept <=>
                /\ log[i].accept
                /\ HasDisclaimer(log[i].id)
                /\ ~args.skip
                /\ RunInvoked(log[i])
          /\ AcceptAfter(i) => log[i].accept
          /\ log[i].outcome \in {"migrations_to_be_ran_manually",
                                 "migrations_dependencies_not_satisfied",
                                 "migrations_no_such_migration"}
                => AcceptAfter(i) = log[i].accept
          /\ ( /\ log[i].outcome = "migrations_migration_has_failed"
               /\ HasDisclaimer(log[i].id) )
                => /\ log[i].accept
                   /\ \A j \in Entries : j > i => ~log[j].accept
                   /\ ~accept_disclaimer

C36_Witness ==
    /\ pc = "done"
    /\ args.accept_disclaimer
    /\ Len(log) = 2
    /\ HasDisclaimer(log[1].id)
    /\ log[1].outcome = "migrations_dependencies_not_satisfied"
    /\ log[2].accept
    /\ HasDisclaimer(log[2].id)
    /\ log[2].outcome = "migrations_migration_has_failed"
    /\ ~accept_disclaimer

HooksInvoked == { restore.invoked[i] : i \in 1..Len(restore.invoked) }

(* C37: a restore-time hook runner leaves the state file as it is; when the
   backup version is the current version it invokes no hook and returns;
   otherwise it invokes hooks of no migration but those that have the hook
   and were introduced after the backup version, whatever their state, and
   unless a hook raised it invokes the hook of every one of them. *)
C37_RestoreHooksIgnoreState ==
    restore.called =>
        /\ store = RestoredStore
        /\ state_file_exists
        /\ IF restore.backup_version = CurrentVersion
           THEN restore.invoked = <<>> /\ ~restore.raised
           ELSE /\ HooksInvoked \subseteq HookEligible
                /\ ~restore.raised => HooksInvoked = HookEligible
                /\ restore.raised => HooksInvoked \cap restore.failing # {}

C37_Witness ==
    /\ restore.called
    /\ restore.backup_version # CurrentVersion
    /\ ~restore.raised
    /\ tools_migrations_state["1_a"] = "done"
    /\ tools_migrations_state["2_b"] = "skipped"
    /\ "10_c" \notin DOMAIN tools_migrations_state
    /\ HooksInvoked = {"1_a", "2_b", "10_c"}

\* run() got as far as the comparison of the space used with the free space
ReachedSpaceCheck ==
    /\ postgresql.called
    /\ postgresql.text
    /\ postgresql.installed = {"postgresql-9.6", "postgresql-11"}
    /\ postgresql.cluster

(* C38: once run() has found both packages installed and a 9.6 cluster, it
   raises migration_0017_not_enough_space exactly when the space used by
   /var/lib/postgresql/9.6 is greater than the free space in
   /var/lib/postgresql, and otherwise goes on to the commands of the cluster
   upgrade, starting with the stop of postgresql. *)
C38_NotEnoughSpaceIffUsedExceedsFree ==
    ReachedSpaceCheck =>
        IF postgresql.used > postgresql.free
        THEN /\ postgresql.result = "migration_0017_not_enough_space"
             /\ postgresql.commands = <<>>
        ELSE /\ postgresql.result # "migration_0017_not_enough_space"
             /\ postgresql.commands # <<>>
             /\ postgresql.commands[1] = UpgradeCommands[1]

====
